---- MODULE Spec2Model ----
(***************************************************************************)
(* Model of the macaroon crate: the signature chain (create, attenuate,    *)
(* bind) and the verifier (Verifier::verify / verify_with_sig).            *)
(*                                                                         *)
(* Byte strings and keys are symbolic terms.  Every term is a tuple whose  *)
(* first element is a tag and whose other elements are terms:              *)
(*   <<"k_root">>            an atom (a key, an identifier, a predicate)   *)
(*   <<"hmac", k, t>>        HMAC-SHA256 of t under k                      *)
(*   <<"cat", a, b>>         concatenation of two 32-octet values          *)
(*   <<"enc", k, p, n>>      nonce n followed by the AEAD sealing of p     *)
(*                           under k                                       *)
(* Two terms are equal exactly when they are the same term: the HMAC and   *)
(* the AEAD are taken to be collision free.                                *)
(***************************************************************************)
EXTENDS Integers, Sequences, FiniteSets, TLC

\* ------------------------------------------------------------------ bounds
MaxCaveats == 2            \* caveats of the primary
MaxDischargeCaveats == 1   \* caveats of one discharge
MaxDischarges == 1         \* discharges held, specification Spec
MaxChain == 2              \* discharges held, specification SpecChain
MaxGeneral == 1            \* general callbacks registered
MaxBinds == 1              \* bindings of one discharge
MaxDepth == 4              \* nested verify_with_sig calls the stack holds
LongField == 256           \* octets of the longest field serialized
MaxRegistered == 3         \* general callbacks registered, specification SpecCheck
MaxPackets == 4            \* packets after the identifier of a V1 token put together

\* --------------------------------------------------------------- constants
NONCE_BYTES == 12
KEY_BYTES == 32

\* ------------------------------------------------------------- input sets
RootKey == <<"k_root">>
OtherKey == <<"k_other">>
PrimaryId == <<"keyid">>
PrimaryLoc == <<"http://example.org/">>
DischargeLoc == <<"http://auth.mybank/">>
OtherLoc == <<"http://evil/">>
Account == <<"account = 3735928559">>
TimePred == <<"time > 2010-01-01T00:00+0000">>
Preds == {Account, TimePred}
ExactPreds == {Account}
IdD == <<"other keyid">>
IdE == <<"third keyid">>
KeyD == <<"k_D">>
KeyE == <<"k_E">>
\* third-party services: the caveat identifier and the caveat root key
Targets == {[id |-> IdD, key |-> KeyD], [id |-> IdE, key |-> KeyE]}
VerifyKeys == {RootKey, OtherKey}
Nonces == {<<"n1">>}
GeneralFns == {"after_time_verifier"}

\* the empty byte string, and the location that is not there (Option::None)
Empty == <<"empty">>
None == <<"None">>

\* -------------------------------------------------------------- crypto
ZeroKey == <<"zero">>

\* length in octets of a term
RECURSIVE ByteLen(_)
ByteLen(t) ==
    CASE t[1] = "hmac" -> KEY_BYTES
      [] t[1] = "cat" -> ByteLen(t[2]) + ByteLen(t[3])
      [] t[1] = "enc" -> NONCE_BYTES + ByteLen(t[3]) + 16  \* Poly1305 tag
      [] t[1] = "zero" -> KEY_BYTES
      [] t[1] \in {"k_root", "k_other", "k_D", "k_E", "sig_forged"} -> KEY_BYTES
      [] t[1] = "vid_short" -> NONCE_BYTES + KEY_BYTES
      [] t[1] = "vid_forged" -> NONCE_BYTES + KEY_BYTES + 16
      [] t[1] = "plain_short" -> KEY_BYTES - 8
      [] t[1] = "plain_long" -> KEY_BYTES + 8
      [] t[1] = "first32" -> KEY_BYTES
      [] t[1] = "empty" -> 0
      [] t[1] = "bytes" -> Len(t[2])
      [] t[1] = "random" -> KEY_BYTES
      [] OTHER -> 8

hmac(key, text) == <<"hmac", key, text>>

hmac2(key, text1, text2) ==
    LET tmp1 == hmac(key, text1)
        tmp2 == hmac(key, text2)
    IN  hmac(key, <<"cat", tmp1, tmp2>>)

encrypt_key(key, plaintext, nonce) == <<"enc", key, plaintext, nonce>>

\* st = "ok": the plaintext key; "CryptoError": Err returned; "Panic": the
\* process aborts in expect() or in From<Vec<u8>> for MacaroonKey.  A
\* plaintext of more than KEY_BYTES octets is cut to its first KEY_BYTES.
decrypt_key(key, data) ==
    IF ByteLen(data) <= NONCE_BYTES + KEY_BYTES
    THEN [st |-> "CryptoError", key |-> ZeroKey]
    ELSE IF ~(data[1] = "enc" /\ data[2] = key)
    THEN [st |-> "Panic", key |-> ZeroKey]
    ELSE IF ByteLen(data[3]) < KEY_BYTES
    THEN [st |-> "Panic", key |-> ZeroKey]
    ELSE IF ByteLen(data[3]) > KEY_BYTES
    THEN [st |-> "ok", key |-> <<"first32", data[3]>>]
    ELSE [st |-> "ok", key |-> data[3]]

\* -------------------------------------------------------------- caveats
new_first_party(predicate) == [type |-> "fp", predicate |-> predicate]

new_third_party(id, verifier_id, location) ==
    [type |-> "tp", id |-> id, verifier_id |-> verifier_id, location |-> location]

\* mutant: the predicate of a first-party caveat is not hashed
sign_without_predicate(c, key) ==
    IF c.type = "fp" THEN hmac(key, <<"first party">>)
    ELSE hmac2(key, c.verifier_id, c.id)

sign(c, key) ==
    IF c.type = "fp" THEN hmac(key, c.predicate)
    ELSE hmac2(key, c.verifier_id, c.id)

\* -------------------------------------------------------------- macaroon
\* Macaroon::create before validate()
create(location, key, identifier) ==
    [identifier |-> identifier, location |-> location,
     signature |-> hmac(key, identifier), caveats |-> <<>>]

\* mutant: the identifier is not looked at
validate_any(m) == [st |-> "Ok", m |-> m]

\* Macaroon::validate: signature.is_empty() is never true of [u8; 32]
validate(m) ==
    IF ByteLen(m.identifier) = 0 THEN [st |-> "IncompleteMacaroon", m |-> m]
    ELSE IF KEY_BYTES = 0 THEN [st |-> "IncompleteMacaroon", m |-> m]
    ELSE [st |-> "Ok", m |-> m]

\* Macaroon::create
Macaroon_create(location, key, identifier) == validate(create(location, key, identifier))

\* mutant: the caveat is appended and the signature is left as it was
add_first_party_caveat_unsigned(m, predicate) ==
    [m EXCEPT !.caveats = Append(m.caveats, new_first_party(predicate))]

add_first_party_caveat(m, predicate) ==
    LET caveat == new_first_party(predicate)
    IN  [m EXCEPT !.signature = sign(caveat, m.signature),
                  !.caveats = Append(m.caveats, caveat)]

add_third_party_caveat(m, location, key, id, nonce) ==
    LET vid == encrypt_key(m.signature, key, nonce)
        caveat == new_third_party(id, vid, location)
    IN  [m EXCEPT !.signature = sign(caveat, m.signature),
                  !.caveats = Append(m.caveats, caveat)]

\* mutant: the discharge also takes the location of the primary
bind_relocating(self, discharge) ==
    [discharge EXCEPT !.signature = hmac2(ZeroKey, self.signature, discharge.signature),
                      !.location = self.location]

\* mutant: the two signatures are hashed in the other order
bind_swapped(self, discharge) ==
    [discharge EXCEPT !.signature = hmac2(ZeroKey, discharge.signature, self.signature)]

\* self.bind(&mut discharge): the discharge afterwards
bind(self, discharge) ==
    [discharge EXCEPT !.signature = hmac2(ZeroKey, self.signature, discharge.signature)]

\* -------------------------------------------------------------- verifier
\* a general callback (fn(&ByteString) -> bool), by name
Accepts(f, value) ==
    CASE f = "after_time_verifier" -> value = TimePred
      [] OTHER -> FALSE

RECURSIVE verify_general_from(_, _, _)
verify_general_from(general, value, i) ==
    IF i > Len(general) THEN FALSE
    ELSE IF Accepts(general[i], value) THEN TRUE
    ELSE verify_general_from(general, value, i + 1)

\* mutant: the loop starts after the first callback
verify_general_skip_first(v, value) == verify_general_from(v.general, value, 2)

verify_general(v, value) == verify_general_from(v.general, value, 1)

\* mutant: the result of the callbacks is negated
Satisfies_negated(v, predicate) == predicate \in v.exact \/ ~verify_general(v, predicate)

\* the test of the first-party arm
Satisfies(v, predicate) == predicate \in v.exact \/ verify_general(v, predicate)

\* The test of the first-party arm, one evaluation at a time.  A check in
\* progress is [at, i, events, ok]: what is evaluated next ("exact": the
\* lookup in self.exact, "general": the call of self.general[i], "done":
\* nothing), the evaluations made so far, in order, as <<"exact", 0>> and
\* <<"general", i>>, and the value of the test once it is done.
first_party_start == [at |-> "exact", i |-> 0, events |-> <<>>, ok |-> FALSE]

first_party_done(events, ok) == [at |-> "done", i |-> 0, events |-> events, ok |-> ok]

\* for f in self.general.iter(): the next callback, or the end of the loop
general_iter(v, i, events) ==
    IF i > Len(v.general) THEN first_party_done(events, FALSE)
    ELSE [at |-> "general", i |-> i, events |-> events, ok |-> FALSE]

\* mutant: the callbacks are called whatever the lookup says (| for ||)
exact_contains_eager(v, predicate, c) ==
    general_iter(v, 1, Append(c.events, <<"exact", 0>>))

\* self.exact.contains(&fp.predicate()) || ...
exact_contains(v, predicate, c) ==
    IF predicate \in v.exact THEN first_party_done(Append(c.events, <<"exact", 0>>), TRUE)
    ELSE general_iter(v, 1, Append(c.events, <<"exact", 0>>))

\* if f(value) { return true; }
general_call(v, predicate, c) ==
    IF Accepts(v.general[c.i], predicate)
    THEN first_party_done(Append(c.events, <<"general", c.i>>), TRUE)
    ELSE general_iter(v, c.i + 1, Append(c.events, <<"general", c.i>>))

\* String::from_utf8_lossy on a predicate: the atoms of the model that are
\* not UTF-8 all become the replacement character
Utf8Lossy(b) == IF b[1] = "\\xff" \/ b[1] = "\\xfe" THEN <<"U+FFFD">> ELSE b

\* discharges.iter().map(|d| (d.identifier.clone(), d.clone())).collect():
\* a later discharge with the same identifier replaces an earlier one
RECURSIVE CollectFrom(_, _, _)
CollectFrom(discharges, i, acc) ==
    IF i > Len(discharges) THEN acc
    ELSE LET d == discharges[i]
         IN  CollectFrom(discharges, i + 1,
                 [k \in (DOMAIN acc) \cup {d.identifier} |->
                     IF k = d.identifier THEN d ELSE acc[k]])

Collect(discharges) == CollectFrom(discharges, 1, [k \in {} |-> k])

\* mutant: the discharge stays in discharge_set
Remove_nothing(set, k) == set

Remove(set, k) == [x \in (DOMAIN set) \ {k} |-> set[x]]

Fail(res, detail, st) == [res |-> res, detail |-> detail, st |-> st]

\* The working state threaded through the traversal: discharge_set, and two
\* records of what the traversal did: log, the caveats examined as
\* <<depth, index>> (depth 0 is the primary), and used, the discharges taken
\* out of discharge_set, in order.
RECURSIVE verify_with_sig(_, _, _, _, _, _)
RECURSIVE verify_caveats(_, _, _, _, _, _, _)

\* mutant: after a first-party caveat fails, the loop goes on over the caveats
\* that follow and reports the failure at the end
verify_caveats_to_the_end(v, root_sig, m, i, sig, st, depth) ==
    IF i > Len(m.caveats) THEN [res |-> "Ok", detail |-> <<"ok">>, st |-> st, sig |-> sig]
    ELSE
      LET c == m.caveats[i]
          st1 == [st EXCEPT !.log = Append(@, <<depth, i>>)]
      IN
      IF c.type = "tp" THEN
        LET dk == decrypt_key(sig, c.verifier_id) IN
        IF dk.st # "ok" THEN
          [res |-> dk.st, detail |-> <<"decrypt">>, st |-> st1, sig |-> sig]
        ELSE IF c.id \notin DOMAIN st1.discharge_set THEN
          [res |-> "CaveatNotSatisfied", detail |-> <<"no discharge macaroon found">>,
           st |-> st1, sig |-> sig]
        ELSE
          LET dm == st1.discharge_set[c.id]
              st2 == [st1 EXCEPT !.discharge_set = Remove(@, c.id),
                                 !.used = Append(@, dm)]
              r == verify_with_sig(v, root_sig, dm, dk.key, st2, depth + 1)
          IN  IF r.res # "Ok" THEN [res |-> r.res, detail |-> r.detail, st |-> r.st, sig |-> sig]
              ELSE verify_caveats(v, root_sig, m, i + 1, sign(c, sig), r.st, depth)
      ELSE
        IF ~Satisfies(v, c.predicate) THEN
          LET rest == verify_caveats(v, root_sig, m, i + 1, sign(c, sig), st1, depth) IN
          [res |-> "CaveatNotSatisfied",
           detail |-> <<"first party caveat not satisfied", Utf8Lossy(c.predicate)>>,
           st |-> rest.st, sig |-> sig]
        ELSE verify_caveats(v, root_sig, m, i + 1, sign(c, sig), st1, depth)

\* mutant: a discharge is checked against the signature of the macaroon that
\* carries its caveat
verify_caveats_parent_root(v, root_sig, m, i, sig, st, depth) ==
    IF i > Len(m.caveats) THEN [res |-> "Ok", detail |-> <<"ok">>, st |-> st, sig |-> sig]
    ELSE
      LET c == m.caveats[i]
          st1 == [st EXCEPT !.log = Append(@, <<depth, i>>)]
      IN
      IF c.type = "tp" THEN
        LET dk == decrypt_key(sig, c.verifier_id) IN
        IF dk.st # "ok" THEN
          [res |-> dk.st, detail |-> <<"decrypt">>, st |-> st1, sig |-> sig]
        ELSE IF c.id \notin DOMAIN st1.discharge_set THEN
          [res |-> "CaveatNotSatisfied", detail |-> <<"no discharge macaroon found">>,
           st |-> st1, sig |-> sig]
        ELSE
          LET dm == st1.discharge_set[c.id]
              st2 == [st1 EXCEPT !.discharge_set = Remove(@, c.id),
                                 !.used = Append(@, dm)]
              r == verify_with_sig(v, m.signature, dm, dk.key, st2, depth + 1)
          IN  IF r.res # "Ok" THEN [res |-> r.res, detail |-> r.detail, st |-> r.st, sig |-> sig]
              ELSE verify_caveats(v, root_sig, m, i + 1, sign(c, sig), r.st, depth)
      ELSE
        IF ~Satisfies(v, c.predicate) THEN
          [res |-> "CaveatNotSatisfied",
           detail |-> <<"first party caveat not satisfied", Utf8Lossy(c.predicate)>>,
           st |-> st1, sig |-> sig]
        ELSE verify_caveats(v, root_sig, m, i + 1, sign(c, sig), st1, depth)

\* mutant: only the predicate of the last caveat is tested
verify_caveats_last_decides(v, root_sig, m, i, sig, st, depth) ==
    IF i > Len(m.caveats) THEN [res |-> "Ok", detail |-> <<"ok">>, st |-> st, sig |-> sig]
    ELSE
      LET c == m.caveats[i]
          st1 == [st EXCEPT !.log = Append(@, <<depth, i>>)]
      IN
      IF c.type = "tp" THEN
        LET dk == decrypt_key(sig, c.verifier_id) IN
        IF dk.st # "ok" THEN
          [res |-> dk.st, detail |-> <<"decrypt">>, st |-> st1, sig |-> sig]
        ELSE IF c.id \notin DOMAIN st1.discharge_set THEN
          [res |-> "CaveatNotSatisfied", detail |-> <<"no discharge macaroon found">>,
           st |-> st1, sig |-> sig]
        ELSE
          LET dm == st1.discharge_set[c.id]
              st2 == [st1 EXCEPT !.discharge_set = Remove(@, c.id),
                                 !.used = Append(@, dm)]
              r == verify_with_sig(v, root_sig, dm, dk.key, st2, depth + 1)
          IN  IF r.res # "Ok" THEN [res |-> r.res, detail |-> r.detail, st |-> r.st, sig |-> sig]
              ELSE verify_caveats(v, root_sig, m, i + 1, sign(c, sig), r.st, depth)
      ELSE
        IF ~Satisfies(v, c.predicate) /\ i = Len(m.caveats) THEN
          [res |-> "CaveatNotSatisfied",
           detail |-> <<"first party caveat not satisfied", Utf8Lossy(c.predicate)>>,
           st |-> st1, sig |-> sig]
        ELSE verify_caveats(v, root_sig, m, i + 1, sign(c, sig), st1, depth)

\* the loop of verify_with_sig from caveat i on, the chain signature being sig
verify_caveats(v, root_sig, m, i, sig, st, depth) ==
    IF i > Len(m.caveats) THEN [res |-> "Ok", detail |-> <<"ok">>, st |-> st, sig |-> sig]
    ELSE
      LET c == m.caveats[i]
          st1 == [st EXCEPT !.log = Append(@, <<depth, i>>)]
      IN
      IF c.type = "tp" THEN
        LET dk == decrypt_key(sig, c.verifier_id) IN
        IF dk.st # "ok" THEN
          [res |-> dk.st, detail |-> <<"decrypt">>, st |-> st1, sig |-> sig]
        ELSE IF c.id \notin DOMAIN st1.discharge_set THEN
          [res |-> "CaveatNotSatisfied", detail |-> <<"no discharge macaroon found">>,
           st |-> st1, sig |-> sig]
        ELSE
          LET dm == st1.discharge_set[c.id]
              st2 == [st1 EXCEPT !.discharge_set = Remove(@, c.id),
                                 !.used = Append(@, dm)]
              r == verify_with_sig(v, root_sig, dm, dk.key, st2, depth + 1)
          IN  IF r.res # "Ok" THEN [res |-> r.res, detail |-> r.detail, st |-> r.st, sig |-> sig]
              ELSE verify_caveats(v, root_sig, m, i + 1, sign(c, sig), r.st, depth)
      ELSE
        IF ~Satisfies(v, c.predicate) THEN
          [res |-> "CaveatNotSatisfied",
           detail |-> <<"first party caveat not satisfied", Utf8Lossy(c.predicate)>>,
           st |-> st1, sig |-> sig]
        ELSE verify_caveats(v, root_sig, m, i + 1, sign(c, sig), st1, depth)

\* mutant: the binding of a discharge is not checked
verify_with_sig_unbound(v, root_sig, m, key, st, depth) ==
    IF depth > MaxDepth THEN Fail("StackOverflow", <<"recursion">>, st)
    ELSE
      LET r == verify_caveats(v, root_sig, m, 1, hmac(key, m.identifier), st, depth) IN
      IF r.res # "Ok" THEN Fail(r.res, r.detail, r.st)
      ELSE IF root_sig = r.sig \/ depth > 0 THEN Fail("Ok", <<"ok">>, r.st)
      ELSE
        LET bound_sig == hmac2(ZeroKey, root_sig, r.sig) IN
        IF bound_sig # m.signature THEN Fail("InvalidSignature", <<"signature">>, r.st)
        ELSE Fail("Ok", <<"ok">>, r.st)

\* mutant: the signature of the primary is not compared
verify_with_sig_unsigned(v, root_sig, m, key, st, depth) ==
    IF depth > MaxDepth THEN Fail("StackOverflow", <<"recursion">>, st)
    ELSE
      LET r == verify_caveats(v, root_sig, m, 1, hmac(key, m.identifier), st, depth) IN
      IF r.res # "Ok" THEN Fail(r.res, r.detail, r.st)
      ELSE IF root_sig = r.sig \/ depth = 0 THEN Fail("Ok", <<"ok">>, r.st)
      ELSE
        LET bound_sig == hmac2(ZeroKey, root_sig, r.sig) IN
        IF bound_sig # m.signature THEN Fail("InvalidSignature", <<"signature">>, r.st)
        ELSE Fail("Ok", <<"ok">>, r.st)

\* depth counts the nested calls; a call nested deeper than MaxDepth stands
\* for the exhaustion of the stack
verify_with_sig(v, root_sig, m, key, st, depth) ==
    IF depth > MaxDepth THEN Fail("StackOverflow", <<"recursion">>, st)
    ELSE
      LET r == verify_caveats(v, root_sig, m, 1, hmac(key, m.identifier), st, depth) IN
      IF r.res # "Ok" THEN Fail(r.res, r.detail, r.st)
      ELSE IF root_sig = r.sig THEN Fail("Ok", <<"ok">>, r.st)
      ELSE
        LET bound_sig == hmac2(ZeroKey, root_sig, r.sig) IN
        IF bound_sig # m.signature THEN Fail("InvalidSignature", <<"signature">>, r.st)
        ELSE Fail("Ok", <<"ok">>, r.st)

\* mutant: what is left in discharge_set is not looked at
verify_leftovers(v, m, key, discharges) ==
    LET st0 == [discharge_set |-> Collect(discharges), log |-> <<>>, used |-> <<>>]
    IN  verify_with_sig(v, m.signature, m, key, st0, 0)

verify(v, m, key, discharges) ==
    LET st0 == [discharge_set |-> Collect(discharges), log |-> <<>>, used |-> <<>>]
        r == verify_with_sig(v, m.signature, m, key, st0, 0)
    IN  IF r.res # "Ok" THEN r
        ELSE IF DOMAIN r.st.discharge_set # {} THEN Fail("DischargeNotUsed", <<"unused">>, r.st)
        ELSE r

\* ------------------------------------------------------- bytes, base64
\* In the serialization formats a byte string is a sequence of octets 0..255
\* and a token is a sequence of octets.

\* the STANDARD and the URL_SAFE alphabet: the value of a character, -1 for a
\* character outside the alphabet, and the character of a value
B64Val(alphabet, c) ==
    IF c >= 65 /\ c <= 90 THEN c - 65
    ELSE IF c >= 97 /\ c <= 122 THEN c - 71
    ELSE IF c >= 48 /\ c <= 57 THEN c + 4
    ELSE IF alphabet = "STANDARD" /\ c = 43 THEN 62
    ELSE IF alphabet = "STANDARD" /\ c = 47 THEN 63
    ELSE IF alphabet = "URL_SAFE" /\ c = 45 THEN 62
    ELSE IF alphabet = "URL_SAFE" /\ c = 95 THEN 63
    ELSE 0 - 1

B64Char(alphabet, v) ==
    IF v < 26 THEN v + 65
    ELSE IF v < 52 THEN v + 71
    ELSE IF v < 62 THEN v - 4
    ELSE IF v = 62 THEN (IF alphabet = "STANDARD" THEN 43 ELSE 45)
    ELSE (IF alphabet = "STANDARD" THEN 47 ELSE 95)

\* base64::encode_engine with padding
B64Encode(alphabet, b) ==
    LET n == Len(b)
        byte(x) == IF x <= n THEN b[x] ELSE 0
    IN  [k \in 1..(4 * ((n + 2) \div 3)) |->
            LET i == 3 * ((k - 1) \div 4) + 1
                j == (k - 1) % 4
            IN  IF j = 0 THEN B64Char(alphabet, byte(i) \div 4)
                ELSE IF j = 1
                THEN B64Char(alphabet, (byte(i) % 4) * 16 + byte(i + 1) \div 16)
                ELSE IF j = 2
                THEN (IF i + 1 > n THEN 61
                      ELSE B64Char(alphabet, (byte(i + 1) % 16) * 4 + byte(i + 2) \div 64))
                ELSE (IF i + 2 > n THEN 61 ELSE B64Char(alphabet, byte(i + 2) % 64))]

\* the octets of the characters c[1..n], all of the alphabet
B64Groups(alphabet, c, n) ==
    LET tail == n % 4
        v(x) == B64Val(alphabet, c[x])
    IN  [k \in 1..(3 * (n \div 4) + (IF tail = 0 THEN 0 ELSE tail - 1)) |->
            LET i == 4 * ((k - 1) \div 3) + 1
                j == (k - 1) % 3
            IN  IF j = 0 THEN v(i) * 4 + v(i + 1) \div 16
                ELSE IF j = 1 THEN (v(i + 1) % 16) * 16 + v(i + 2) \div 4
                ELSE (v(i + 2) % 4) * 64 + v(i + 3)]

\* base64::decode_engine: padding may be left out; when it is there it
\* completes the last group; the bits that are left over are zero
B64Decode(alphabet, c) ==
    LET pads == IF Len(c) >= 2 /\ c[Len(c)] = 61 /\ c[Len(c) - 1] = 61 THEN 2
                ELSE IF Len(c) >= 1 /\ c[Len(c)] = 61 THEN 1 ELSE 0
        n == Len(c) - pads
        tail == n % 4
    IN
    IF \E i \in 1..n : B64Val(alphabet, c[i]) < 0 THEN [ok |-> FALSE, bytes |-> <<>>]
    ELSE IF tail = 1 THEN [ok |-> FALSE, bytes |-> <<>>]
    ELSE IF pads > 0 /\ (tail + pads) # 4 THEN [ok |-> FALSE, bytes |-> <<>>]
    ELSE IF tail = 2 /\ B64Val(alphabet, c[n]) % 16 # 0 THEN [ok |-> FALSE, bytes |-> <<>>]
    ELSE IF tail = 3 /\ B64Val(alphabet, c[n]) % 4 # 0 THEN [ok |-> FALSE, bytes |-> <<>>]
    ELSE [ok |-> TRUE, bytes |-> B64Groups(alphabet, c, n)]

\* base64_decode_flexible
base64_decode_flexible(b) ==
    IF b = <<>> THEN [ok |-> FALSE, bytes |-> <<>>]
    ELSE IF \E i \in DOMAIN b : b[i] = 95 \/ b[i] = 45 THEN B64Decode("URL_SAFE", b)
    ELSE B64Decode("STANDARD", b)

\* ------------------------------------------------------ byte strings
\* ByteString(Vec<u8>), String and [u8; 32] values of the serialization
\* formats: the octets themselves
ByteString(b) == <<"bytes", b>>

Octets(n, c) == [i \in 1..n |-> c]

\* a | b on the 8 low bits
RECURSIVE BitOr(_, _, _)
BitOr(a, b, bits) ==
    IF bits = 0 THEN 0
    ELSE (IF a % 2 = 1 \/ b % 2 = 1 THEN 1 ELSE 0) + 2 * BitOr(a \div 2, b \div 2, bits - 1)

\* 2^n
RECURSIVE Pow2(_)
Pow2(n) == IF n = 0 THEN 1 ELSE 2 * Pow2(n - 1)

\* String::from_utf8 succeeds: well-formed UTF-8 from position i on
RECURSIVE Utf8From(_, _)
Utf8From(b, i) ==
    LET n == Len(b)
        cont(k) == i + k <= n /\ b[i + k] >= 128 /\ b[i + k] <= 191
        second(lo, hi) == i + 1 <= n /\ b[i + 1] >= lo /\ b[i + 1] <= hi
    IN
    IF i > n THEN TRUE
    ELSE IF b[i] < 128 THEN Utf8From(b, i + 1)
    ELSE IF b[i] >= 194 /\ b[i] <= 223 THEN cont(1) /\ Utf8From(b, i + 2)
    ELSE IF b[i] = 224 THEN second(160, 191) /\ cont(2) /\ Utf8From(b, i + 3)
    ELSE IF b[i] = 237 THEN second(128, 159) /\ cont(2) /\ Utf8From(b, i + 3)
    ELSE IF b[i] >= 225 /\ b[i] <= 239 THEN cont(1) /\ cont(2) /\ Utf8From(b, i + 3)
    ELSE IF b[i] = 240 THEN second(144, 191) /\ cont(2) /\ cont(3) /\ Utf8From(b, i + 4)
    ELSE IF b[i] = 244 THEN second(128, 143) /\ cont(2) /\ cont(3) /\ Utf8From(b, i + 4)
    ELSE IF b[i] >= 241 /\ b[i] <= 243 THEN cont(1) /\ cont(2) /\ cont(3) /\ Utf8From(b, i + 4)
    ELSE FALSE

from_utf8(b) == Utf8From(b, 1)

\* a failed call: the error variant (or "Panic") it ends with
Failed(variant) == [st |-> variant]

\* the `?` of Rust: a failed result is what the function returns at once,
\* and the rest K of the function runs on a result that is Ok
Try(r, K(_)) == IF r.st # "Ok" THEN r ELSE K(r)

\* ---------------------------------------------------------- builders
\* CaveatBuilder::new; add_id, add_verifier_id and add_location set a field
CaveatBuilder_new == [id |-> None, verifier_id |-> None, location |-> None]

\* mutant: a location without a verifier id is dropped and the caveat built
CaveatBuilder_build_lenient(cb) ==
    IF cb.id = None THEN Failed("IncompleteCaveat")
    ELSE IF cb.verifier_id = None THEN [st |-> "Ok", caveat |-> new_first_party(cb.id)]
    ELSE IF cb.location # None THEN
        [st |-> "Ok", caveat |-> new_third_party(cb.id, cb.verifier_id, cb.location)]
    ELSE Failed("IncompleteCaveat")

\* mutant: a verifier id without a location builds a third-party caveat with
\* an empty location
CaveatBuilder_build_unlocated(cb) ==
    IF cb.id = None THEN Failed("IncompleteCaveat")
    ELSE IF cb.verifier_id = None /\ cb.location = None THEN
        [st |-> "Ok", caveat |-> new_first_party(cb.id)]
    ELSE IF cb.verifier_id # None THEN
        [st |-> "Ok",
         caveat |-> new_third_party(cb.id, cb.verifier_id,
                                    IF cb.location = None THEN ByteString(<<>>)
                                    ELSE cb.location)]
    ELSE Failed("IncompleteCaveat")

\* CaveatBuilder::build
CaveatBuilder_build(cb) ==
    IF cb.id = None THEN Failed("IncompleteCaveat")
    ELSE IF cb.verifier_id = None /\ cb.location = None THEN
        [st |-> "Ok", caveat |-> new_first_party(cb.id)]
    ELSE IF cb.verifier_id # None /\ cb.location # None THEN
        [st |-> "Ok", caveat |-> new_third_party(cb.id, cb.verifier_id, cb.location)]
    ELSE IF cb.verifier_id = None THEN Failed("IncompleteCaveat")
    ELSE Failed("IncompleteCaveat")

\* MacaroonBuilder::new: the signature starts as MacaroonKey::generate_random()
MacaroonBuilder_new ==
    [identifier |-> ByteString(<<>>), location |-> None,
     signature |-> <<"random">>, caveats |-> <<>>]

\* MacaroonBuilder::build: signature.is_empty() is never true of [u8; 32]
MacaroonBuilder_build(builder) ==
    IF ByteLen(builder.identifier) = 0 THEN Failed("IncompleteMacaroon")
    ELSE IF KEY_BYTES = 0 THEN Failed("IncompleteMacaroon")
    ELSE [st |-> "Ok", m |-> builder]

\* --------------------------------------------------------- format V2
EOS_V2 == 0
LOCATION_V2 == 1
IDENTIFIER_V2 == 2
VID_V2 == 4
SIGNATURE_V2 == 6
VARINT_PACK_SIZE == 128

\* varint_size
RECURSIVE varint_size(_)
varint_size(size) ==
    IF size >= VARINT_PACK_SIZE
    THEN <<(size % VARINT_PACK_SIZE) + VARINT_PACK_SIZE>> \o varint_size(size \div 128)
    ELSE <<size>>

\* serialize_field: what it appends to the buffer
serialize_field(tag, value) == <<tag>> \o varint_size(Len(value)) \o value

\* the fields of one caveat in v2::serialize
v2_serialize_caveat(c) ==
    IF c.type = "fp" THEN serialize_field(IDENTIFIER_V2, c.predicate[2]) \o <<EOS_V2>>
    ELSE serialize_field(LOCATION_V2, c.location[2])
            \o serialize_field(IDENTIFIER_V2, c.id[2])
            \o serialize_field(VID_V2, c.verifier_id[2]) \o <<EOS_V2>>

RECURSIVE v2_serialize_caveats(_, _)
v2_serialize_caveats(caveats, i) ==
    IF i > Len(caveats) THEN <<>>
    ELSE v2_serialize_caveat(caveats[i]) \o v2_serialize_caveats(caveats, i + 1)

\* v2::serialize
v2_serialize(m) ==
    <<2>>
    \o (IF m.location # None THEN serialize_field(LOCATION_V2, m.location[2]) ELSE <<>>)
    \o serialize_field(IDENTIFIER_V2, m.identifier[2]) \o <<EOS_V2>>
    \o v2_serialize_caveats(m.caveats, 1) \o <<EOS_V2>>
    \o serialize_field(SIGNATURE_V2, m.signature[2])

\* Deserializer::get_byte at index (from 0); data.len() - 1 underflows on
\* empty data and the read is then out of bounds either way
get_byte(data, index) ==
    IF Len(data) = 0 THEN Failed("Panic")
    ELSE IF index > Len(data) - 1 THEN Failed("DeserializationError")
    ELSE [st |-> "Ok", val |-> data[index + 1], index |-> index + 1]

\* Deserializer::get_eos
get_eos(data, index) ==
    Try(get_byte(data, index), LAMBDA eos :
        IF eos.val = EOS_V2 THEN eos ELSE Failed("DeserializationError"))

\* byte << shift on a u8 with shift a usize: the product keeps its 8 low
\* bits; a shift of 8 or more panics when the build checks overflow and is
\* taken modulo 8 when it does not
shl_u8(byte, shift) == (byte * Pow2(shift % 8)) % 256

\* Deserializer::get_field_size, from the loop's state (size, shift) on
RECURSIVE get_field_size(_, _, _, _, _)
get_field_size(data, index, size, shift, checks) ==
    IF shift > 63 THEN Failed("DeserializationError")
    ELSE Try(get_byte(data, index), LAMBDA byte :
         IF shift >= 8 /\ checks THEN Failed("Panic")
         ELSE IF byte.val >= 128
         THEN get_field_size(data, byte.index,
                             BitOr(size, shl_u8(byte.val - 128, shift), 8), shift + 7, checks)
         ELSE [st |-> "Ok", val |-> BitOr(size, shl_u8(byte.val, shift), 8),
               index |-> byte.index])

\* Deserializer::get_field
get_field(data, index, checks) ==
    Try(get_field_size(data, index, 0, 0, checks), LAMBDA size :
        IF size.val + size.index > Len(data) THEN Failed("DeserializationError")
        ELSE [st |-> "Ok", val |-> SubSeq(data, size.index + 1, size.index + size.val),
              index |-> size.index + size.val])

\* String::from_utf8(deserializer.get_field()?)?
get_string(data, index, checks) ==
    Try(get_field(data, index, checks), LAMBDA field :
        IF from_utf8(field.val) THEN field ELSE Failed("DeserializationError"))

\* the field that follows the tag IDENTIFIER, which is read first
get_identifier(data, index, checks) ==
    Try(get_byte(data, index), LAMBDA tag :
        IF tag.val # IDENTIFIER_V2 THEN Failed("DeserializationError")
        ELSE get_field(data, tag.index, checks))

\* v2::deserialize, the end of a caveat section from the tag after the
\* identifier on: VID, the field and EOS, or EOS; then the next tag is read
v2_caveat_end(data, cb, tag, checks) ==
    IF tag.val = VID_V2 THEN
        Try(get_field(data, tag.index, checks), LAMBDA vid :
        Try(CaveatBuilder_build([cb EXCEPT !.verifier_id = ByteString(vid.val)]), LAMBDA built :
        Try(get_eos(data, vid.index), LAMBDA eos :
        Try(get_byte(data, eos.index), LAMBDA next :
            [st |-> "Ok", caveat |-> built.caveat, tag |-> next.val, index |-> next.index]))))
    ELSE IF tag.val = EOS_V2 THEN
        Try(CaveatBuilder_build(cb), LAMBDA built :
        Try(get_byte(data, tag.index), LAMBDA next :
            [st |-> "Ok", caveat |-> built.caveat, tag |-> next.val, index |-> next.index]))
    ELSE Failed("DeserializationError")

\* v2::deserialize, the caveat that starts with the tag already read: the
\* caveat, the tag read after it and the index after that tag
v2_caveat(data, index, tag, checks) ==
    IF tag = LOCATION_V2 THEN
        Try(get_string(data, index, checks), LAMBDA location :
        Try(get_identifier(data, location.index, checks), LAMBDA id :
        Try(get_byte(data, id.index), LAMBDA tag3 :
            v2_caveat_end(data,
                          [CaveatBuilder_new EXCEPT !.id = ByteString(id.val),
                                                    !.location = ByteString(location.val)],
                          tag3, checks))))
    ELSE IF tag = IDENTIFIER_V2 THEN
        Try(get_field(data, index, checks), LAMBDA id :
        Try(get_byte(data, id.index), LAMBDA tag3 :
            v2_caveat_end(data, [CaveatBuilder_new EXCEPT !.id = ByteString(id.val)],
                          tag3, checks)))
    ELSE Failed("DeserializationError")

\* v2::deserialize, the loop `while tag != EOS`: the caveats and the index
\* after the EOS tag
RECURSIVE v2_caveats(_, _, _, _, _)
v2_caveats(data, index, tag, caveats, checks) ==
    IF tag = EOS_V2 THEN [st |-> "Ok", caveats |-> caveats, index |-> index]
    ELSE Try(v2_caveat(data, index, tag, checks), LAMBDA c :
             v2_caveats(data, c.index, c.tag, Append(caveats, c.caveat), checks))

\* v2::deserialize, up to the first EOS: the builder with the location and
\* the identifier, and the index after them
v2_header(data, checks) ==
    Try(get_byte(data, 0), LAMBDA version :
        IF version.val # 2 THEN Failed("DeserializationError")
        ELSE
        Try(get_byte(data, version.index), LAMBDA tag :
            IF tag.val = IDENTIFIER_V2 THEN
                Try(get_field(data, tag.index, checks), LAMBDA id :
                    [st |-> "Ok", index |-> id.index,
                     builder |-> [MacaroonBuilder_new EXCEPT
                                     !.identifier = ByteString(id.val)]])
            ELSE IF tag.val = LOCATION_V2 THEN
                Try(get_string(data, tag.index, checks), LAMBDA location :
                Try(get_identifier(data, location.index, checks), LAMBDA id :
                    [st |-> "Ok", index |-> id.index,
                     builder |-> [MacaroonBuilder_new EXCEPT
                                     !.location = ByteString(location.val),
                                     !.identifier = ByteString(id.val)]]))
            ELSE Failed("DeserializationError")))

\* mutant: the signature is taken whatever its length
v2_signature_any_length(data, index, checks) ==
    Try(get_byte(data, index), LAMBDA last :
        IF last.val # SIGNATURE_V2 THEN Failed("DeserializationError")
        ELSE get_field(data, last.index, checks))

\* v2::deserialize, after the caveats: the tag SIGNATURE and the signature
v2_signature(data, index, checks) ==
    Try(get_byte(data, index), LAMBDA last :
        IF last.val # SIGNATURE_V2 THEN Failed("DeserializationError")
        ELSE Try(get_field(data, last.index, checks), LAMBDA sig :
                 IF Len(sig.val) # 32 THEN Failed("DeserializationError") ELSE sig))

\* v2::deserialize
v2_deserialize(data, checks) ==
    Try(v2_header(data, checks), LAMBDA header :
    Try(get_eos(data, header.index), LAMBDA eos :
    Try(get_byte(data, eos.index), LAMBDA tag :
    Try(v2_caveats(data, tag.index, tag.val, <<>>, checks), LAMBDA loop :
    Try(v2_signature(data, loop.index, checks), LAMBDA sig :
        MacaroonBuilder_build([header.builder EXCEPT !.caveats = loop.caveats,
                                                     !.signature = ByteString(sig.val)]))))))

\* --------------------------------------------------------- format V1
LOCATION_V1 == <<108, 111, 99, 97, 116, 105, 111, 110>>              \* "location"
IDENTIFIER_V1 == <<105, 100, 101, 110, 116, 105, 102, 105, 101, 114>> \* "identifier"
SIGNATURE_V1 == <<115, 105, 103, 110, 97, 116, 117, 114, 101>>        \* "signature"
CID_V1 == <<99, 105, 100>>                                            \* "cid"
VID_V1 == <<118, 105, 100>>                                           \* "vid"
CL_V1 == <<99, 108>>                                                  \* "cl"
HEADER_SIZE_V1 == 4

\* to_hex_char: format!("{:1x}", value) of a value below 16
to_hex_char(value) == IF value < 10 THEN 48 + value ELSE 87 + value

\* packet_header
packet_header(size) ==
    <<to_hex_char((size \div 4096) % 16), to_hex_char((size \div 256) % 16),
      to_hex_char((size \div 16) % 16), to_hex_char(size % 16)>>

\* serialize_as_packet
serialize_as_packet(tag, value) ==
    packet_header(HEADER_SIZE_V1 + 2 + Len(tag) + Len(value))
        \o tag \o <<32>> \o value \o <<10>>

\* the packets of one caveat in v1::serialize_binary
v1_serialize_caveat(c) ==
    IF c.type = "fp" THEN serialize_as_packet(CID_V1, c.predicate[2])
    ELSE serialize_as_packet(CID_V1, c.id[2])
            \o serialize_as_packet(VID_V1, c.verifier_id[2])
            \o serialize_as_packet(CL_V1, c.location[2])

RECURSIVE v1_serialize_caveats(_, _)
v1_serialize_caveats(caveats, i) ==
    IF i > Len(caveats) THEN <<>>
    ELSE v1_serialize_caveat(caveats[i]) \o v1_serialize_caveats(caveats, i + 1)

\* v1::serialize_binary
serialize_binary(m) ==
    (IF m.location # None THEN serialize_as_packet(LOCATION_V1, m.location[2]) ELSE <<>>)
    \o serialize_as_packet(IDENTIFIER_V1, m.identifier[2])
    \o v1_serialize_caveats(m.caveats, 1)
    \o serialize_as_packet(SIGNATURE_V1, m.signature[2])

\* the value of a hexadecimal digit, -1 for any other character
HexVal(c) ==
    IF c >= 48 /\ c <= 57 THEN c - 48
    ELSE IF c >= 97 /\ c <= 102 THEN c - 87
    ELSE IF c >= 65 /\ c <= 70 THEN c - 55
    ELSE 0 - 1

\* usize::from_str_radix(hex, 16) of four octets: digits of either case,
\* after an optional '+'
from_str_radix(hex) ==
    LET digits == IF hex[1] = 43 THEN SubSeq(hex, 2, 4) ELSE hex
        RECURSIVE value(_, _)
        value(i, acc) == IF i > Len(digits) THEN acc
                         ELSE value(i + 1, acc * 16 + HexVal(digits[i]))
    IN
    IF \E i \in DOMAIN digits : HexVal(digits[i]) < 0 THEN Failed("DeserializationError")
    ELSE [st |-> "Ok", val |-> value(1, 0)]

\* split_index: the position (from 0) of the first ' ', -1 when there is none
split_index(packet) ==
    IF \E i \in DOMAIN packet : packet[i] = 32
    THEN (CHOOSE i \in DOMAIN packet :
             packet[i] = 32 /\ \A j \in 1..(i - 1) : packet[j] # 32) - 1
    ELSE 0 - 1

\* deserialize_as_packets, one packet without its header, the first ' ' at
\* index (from 0): the key before it, the value between it and the last octet
split_packet(packet_data, index) ==
    IF index < 0 THEN Failed("DeserializationError")
    ELSE IF Len(packet_data) - index < 2 THEN Failed("DeserializationError")
    ELSE IF ~from_utf8(SubSeq(packet_data, 1, index)) THEN Failed("DeserializationError")
    ELSE [st |-> "Ok",
          packet |-> [key |-> SubSeq(packet_data, 1, index),
                      value |-> SubSeq(packet_data, index + 2, Len(packet_data) - 1)]]

\* deserialize_as_packets
RECURSIVE deserialize_as_packets(_, _)
deserialize_as_packets(data, packets) ==
    IF Len(data) = 0 THEN [st |-> "Ok", packets |-> packets]
    ELSE IF Len(data) < 4 THEN Failed("DeserializationError")
    ELSE IF ~from_utf8(SubSeq(data, 1, 4)) THEN Failed("DeserializationError")
    ELSE
    Try(from_str_radix(SubSeq(data, 1, 4)), LAMBDA size :
        IF size.val > Len(data) THEN Failed("DeserializationError")
        ELSE IF size.val <= 4 THEN Failed("DeserializationError")
        ELSE
        Try(split_packet(SubSeq(data, 5, size.val), split_index(SubSeq(data, 5, size.val))),
            LAMBDA split :
                deserialize_as_packets(SubSeq(data, size.val + 1, Len(data)),
                                       Append(packets, split.packet))))

\* v1::deserialize, `if caveat_builder.has_id()`: the caveat begun is built
\* and added, and a new caveat builder takes its place
add_pending_caveat(builder, caveat_builder) ==
    IF caveat_builder.id = None
    THEN [st |-> "Ok", builder |-> builder, caveat_builder |-> caveat_builder]
    ELSE Try(CaveatBuilder_build(caveat_builder), LAMBDA built :
             [st |-> "Ok", builder |-> [builder EXCEPT !.caveats = Append(@, built.caveat)],
              caveat_builder |-> CaveatBuilder_new])

\* v1::deserialize, the loop over the packets from packet i on
RECURSIVE v1_packets(_, _, _, _)
v1_packets(packets, i, builder, caveat_builder) ==
    IF i > Len(packets) THEN MacaroonBuilder_build(builder)
    ELSE IF packets[i].key = LOCATION_V1 THEN
        IF ~from_utf8(packets[i].value) THEN Failed("DeserializationError")
        ELSE v1_packets(packets, i + 1,
                        [builder EXCEPT !.location = ByteString(packets[i].value)],
                        caveat_builder)
    ELSE IF packets[i].key = IDENTIFIER_V1 THEN
        v1_packets(packets, i + 1,
                   [builder EXCEPT !.identifier = ByteString(packets[i].value)],
                   caveat_builder)
    ELSE IF packets[i].key = SIGNATURE_V1 THEN
        Try(add_pending_caveat(builder, caveat_builder), LAMBDA added :
            IF Len(packets[i].value) # 32 THEN Failed("DeserializationError")
            ELSE v1_packets(packets, i + 1,
                            [added.builder EXCEPT !.signature = ByteString(packets[i].value)],
                            added.caveat_builder))
    ELSE IF packets[i].key = CID_V1 THEN
        Try(add_pending_caveat(builder, caveat_builder), LAMBDA added :
            v1_packets(packets, i + 1, added.builder,
                       [added.caveat_builder EXCEPT !.id = ByteString(packets[i].value)]))
    ELSE IF packets[i].key = VID_V1 THEN
        v1_packets(packets, i + 1, builder,
                   [caveat_builder EXCEPT !.verifier_id = ByteString(packets[i].value)])
    ELSE IF packets[i].key = CL_V1 THEN
        IF ~from_utf8(packets[i].value) THEN Failed("DeserializationError")
        ELSE v1_packets(packets, i + 1, builder,
                        [caveat_builder EXCEPT !.location = ByteString(packets[i].value)])
    ELSE Failed("DeserializationError")

\* v1::deserialize
v1_deserialize(data) ==
    Try(deserialize_as_packets(data, <<>>), LAMBDA read :
        v1_packets(read.packets, 1, MacaroonBuilder_new, CaveatBuilder_new))

\* ----------------------------------------------------- format V2JSON
\* A V2JSON token is the octet '{' followed by the rest of the text, which
\* serde_json reads: <<"object", o>> is the text of an object with the members
\* of struct Serialization (an absent member is None, a string is its octets,
\* "c" is a sequence of objects with the members of struct Caveat), and
\* <<"malformed">> is any text serde_json rejects.
NoMembers == [i |-> None, i64 |-> None, l |-> None, l64 |-> None, v |-> None, v64 |-> None]

\* impl Serialize for ByteString: the standard base64 text of a field
ByteString_serialize(field) ==
    IF field = None THEN None ELSE ByteString(B64Encode("STANDARD", field[2]))

\* ByteStringVisitor::visit_str: the octets of a base64 text
ByteString_deserialize(text) ==
    IF text = None THEN [st |-> "Ok", val |-> None]
    ELSE LET raw == B64Decode("STANDARD", text[2]) IN
         IF raw.ok THEN [st |-> "Ok", val |-> ByteString(raw.bytes)]
         ELSE Failed("DeserializationError")

\* Serialization::from_macaroon, one caveat
from_macaroon_caveat(c) ==
    IF c.type = "fp" THEN [NoMembers EXCEPT !.i64 = c.predicate]
    ELSE [NoMembers EXCEPT !.i64 = c.id, !.l = c.location, !.v64 = c.verifier_id]

\* Serialization::from_macaroon
from_macaroon(m) ==
    [v |-> 2, i |-> None, i64 |-> m.identifier, l |-> m.location, l64 |-> None,
     c |-> [k \in DOMAIN m.caveats |-> from_macaroon_caveat(m.caveats[k])],
     s |-> None, s64 |-> ByteString(B64Encode("URL_SAFE", m.signature[2]))]

\* serde_json::to_string of a Serialization
to_string(ser) ==
    <<123, <<"object",
        [ser EXCEPT !.i64 = ByteString_serialize(@),
                    !.c = [k \in DOMAIN ser.c |->
                              [ser.c[k] EXCEPT !.i64 = ByteString_serialize(@),
                                               !.v64 = ByteString_serialize(@)]]]>>>>

\* serde_json::from_slice into a Serialization
from_slice(data) ==
    IF Len(data) # 2 THEN Failed("DeserializationError")
    ELSE IF data[2][1] # "object" THEN Failed("DeserializationError")
    ELSE
    LET o == data[2][2]
        bad(text) == text # None /\ ~B64Decode("STANDARD", text[2]).ok
    IN
    IF bad(o.i64) \/ \E k \in DOMAIN o.c : bad(o.c[k].i64) \/ bad(o.c[k].v64)
    THEN Failed("DeserializationError")
    ELSE [st |-> "Ok",
          ser |-> [o EXCEPT !.i64 = ByteString_deserialize(@).val,
                            !.c = [k \in DOMAIN o.c |->
                                      [o.c[k] EXCEPT !.i64 = ByteString_deserialize(@).val,
                                                     !.v64 = ByteString_deserialize(@).val]]]]

\* a base64 text member decoded with URL_SAFE_ENGINE, as a string when utf8
decode_engine(text, utf8) ==
    LET raw == B64Decode("URL_SAFE", text[2]) IN
    IF ~raw.ok THEN Failed("DeserializationError")
    ELSE IF utf8 /\ ~from_utf8(raw.bytes) THEN Failed("DeserializationError")
    ELSE [st |-> "Ok", val |-> ByteString(raw.bytes)]

\* Macaroon::from_json, `match l`: the member l, else l64 decoded with
\* URL_SAFE_ENGINE as a string, else no location
json_location(l, l64) ==
    IF l # None THEN [st |-> "Ok", val |-> l]
    ELSE IF l64 # None THEN decode_engine(l64, TRUE)
    ELSE [st |-> "Ok", val |-> None]

\* Macaroon::from_json, `match ser.s`: the member s, else s64 decoded
json_signature(s, s64) ==
    IF s # None THEN [st |-> "Ok", val |-> s]
    ELSE IF s64 # None THEN decode_engine(s64, FALSE)
    ELSE Failed("DeserializationError")

\* Macaroon::from_json, the body of the loop over ser.c
from_json_caveat(c) ==
    IF c.i = None /\ c.i64 = None THEN Failed("DeserializationError")
    ELSE Try(json_location(c.l, c.l64), LAMBDA location :
             CaveatBuilder_build(
                [id |-> IF c.i # None THEN c.i ELSE c.i64,
                 location |-> location.val,
                 verifier_id |-> IF c.v # None THEN c.v ELSE c.v64]))

\* Macaroon::from_json, the loop over ser.c from caveat k on
RECURSIVE from_json_caveats(_, _, _)
from_json_caveats(c, k, caveats) ==
    IF k > Len(c) THEN [st |-> "Ok", caveats |-> caveats]
    ELSE Try(from_json_caveat(c[k]), LAMBDA built :
             from_json_caveats(c, k + 1, Append(caveats, built.caveat)))

\* Macaroon::from_json
from_json(ser) ==
    IF ser.i # None /\ ser.i64 # None THEN Failed("DeserializationError")
    ELSE IF ser.l # None /\ ser.l64 # None THEN Failed("DeserializationError")
    ELSE IF ser.s # None /\ ser.s64 # None THEN Failed("DeserializationError")
    ELSE IF ser.i = None /\ ser.i64 = None THEN Failed("DeserializationError")
    ELSE
    Try(json_location(ser.l, ser.l64), LAMBDA location :
    Try(json_signature(ser.s, ser.s64), LAMBDA raw_sig :
        IF Len(raw_sig.val[2]) # 32 THEN Failed("DeserializationError")
        ELSE
        Try(from_json_caveats(ser.c, 1, <<>>), LAMBDA loop :
            MacaroonBuilder_build(
                [identifier |-> IF ser.i # None THEN ser.i ELSE ser.i64,
                 location |-> location.val,
                 signature |-> raw_sig.val, caveats |-> loop.caveats]))))

\* v2json::serialize
v2json_serialize(m) == to_string(from_macaroon(m))

\* v2json::deserialize
v2json_deserialize(data) == Try(from_slice(data), LAMBDA v2j : from_json(v2j.ser))

\* ------------------------------------------- serialize, deserialize
Formats == {"V1", "V2", "V2JSON"}

\* Macaroon::serialize: V1 and V2 as URL-safe base64 with padding
Macaroon_serialize(m, format) ==
    IF format = "V1" THEN B64Encode("URL_SAFE", serialize_binary(m))
    ELSE IF format = "V2" THEN B64Encode("URL_SAFE", v2_serialize(m))
    ELSE v2json_serialize(m)

\* a parsed macaroon goes through Macaroon::validate
Validated(parsed) == Try(parsed, LAMBDA mac : validate(mac.m))

\* a sniffing that takes every character of the base64 alphabets for V1
binary_format_base64(token) ==
    IF token[1] = 2 THEN "V2"
    ELSE IF (token[1] >= 97 /\ token[1] <= 122) \/ (token[1] >= 65 /\ token[1] <= 90)
                \/ (token[1] >= 48 /\ token[1] <= 57) \/ token[1] \in {43, 45, 47, 95}
    THEN "V1"
    ELSE "unknown"

\* the `match token[0]` of Macaroon::deserialize_binary on a token that is
\* not empty
binary_format(token) ==
    IF token[1] = 2 THEN "V2"
    ELSE IF (token[1] >= 97 /\ token[1] <= 102) \/ (token[1] >= 65 /\ token[1] <= 90)
                \/ (token[1] >= 48 /\ token[1] <= 57)
    THEN "V1"
    ELSE "unknown"

\* Macaroon::deserialize_binary; checks: the build checks arithmetic overflow
deserialize_binary(token, checks) ==
    IF Len(token) = 0 THEN Failed("DeserializationError")
    ELSE IF binary_format(token) = "V2" THEN Validated(v2_deserialize(token, checks))
    ELSE IF binary_format(token) = "V1" THEN Validated(v1_deserialize(token))
    ELSE Failed("DeserializationError")

\* the `match token[0]` of Macaroon::deserialize on a token that is not empty
token_format(token) == IF token[1] = 123 THEN "V2JSON" ELSE "base64"

\* base64_decode_flexible(token.as_ref())?
decoded(token) ==
    IF base64_decode_flexible(token).ok
    THEN [st |-> "Ok", val |-> base64_decode_flexible(token).bytes]
    ELSE Failed("DeserializationError")

\* Macaroon::deserialize
Macaroon_deserialize(token, checks) ==
    IF Len(token) = 0 THEN Failed("DeserializationError")
    ELSE IF token_format(token) = "V2JSON" THEN Validated(v2json_deserialize(token))
    ELSE Try(decoded(token), LAMBDA binary :
             Validated(deserialize_binary(binary.val, checks)))

\* ---------------------------------------------------------------- state
VARIABLES
    primary,    \* <<>> before Macaroon::create, then <<the primary macaroon>>
    rootKey,    \* the key the primary was created with
    dis,        \* the discharge macaroons the bearer holds, in the order received
    disInfo,    \* per discharge: the key it was created with, how often it was
                \* bound to the primary, and whether it or the primary was
                \* attenuated after the binding
    verifier,   \* Verifier { exact, general }
    tamper,     \* the one field of the primary changed behind the API, if any
    outcome,    \* the last Verifier::verify call on the objects as they stand
    io          \* the last call of a function that leaves the objects alone:
                \* <<its name, its arguments, what it returned>>

vars == <<primary, rootKey, dis, disInfo, verifier, tamper, outcome, io>>

NoTamper == [kind |-> "none", idx |-> 0, old |-> <<"none">>]

NoCall ==
    [called |-> FALSE, key |-> ZeroKey, discharges |-> <<>>, res |-> "none",
     detail |-> <<"none">>, log |-> <<>>, used |-> <<>>, unused |-> {}]

NoIo == <<"none", <<"none">>, <<"none">>>>

\* the name, the arguments and the result of the call io records
IoOp == io[1]
IoArg == io[2]
IoRes == io[3]

Init ==
    /\ primary = <<>>
    /\ rootKey = ZeroKey
    /\ dis = <<>>
    /\ disInfo = <<>>
    /\ verifier = [exact |-> {}, general |-> <<>>]
    /\ tamper = NoTamper
    /\ outcome = NoCall
    /\ io = NoIo

\* every binding made so far is overtaken by an attenuation of the primary
StaleAll(info) == [i \in DOMAIN info |-> [info[i] EXCEPT !.stale = (info[i].binds > 0)]]

\* Macaroon::create(location, key, identifier) by the issuer
Create(key, identifier) ==
    /\ primary = <<>>
    /\ Macaroon_create(PrimaryLoc, key, identifier).st = "Ok"
    /\ primary' = <<Macaroon_create(PrimaryLoc, key, identifier).m>>
    /\ rootKey' = key
    /\ outcome' = NoCall
    /\ UNCHANGED <<dis, disInfo, verifier, tamper, io>>

\* primary.add_first_party_caveat(predicate)
AddFirstParty(predicate) ==
    /\ primary # <<>>
    /\ Len(primary[1].caveats) < MaxCaveats
    /\ primary' = <<add_first_party_caveat(primary[1], predicate)>>
    /\ disInfo' = StaleAll(disInfo)
    /\ outcome' = NoCall
    /\ UNCHANGED <<rootKey, dis, verifier, tamper, io>>

\* primary.add_third_party_caveat(location, key, id)
AddThirdParty(t, nonce) ==
    /\ primary # <<>>
    /\ Len(primary[1].caveats) < MaxCaveats
    /\ primary' = <<add_third_party_caveat(primary[1], DischargeLoc, t.key, t.id, nonce)>>
    /\ disInfo' = StaleAll(disInfo)
    /\ outcome' = NoCall
    /\ UNCHANGED <<rootKey, dis, verifier, tamper, io>>

\* Macaroon::create(location, caveat_key, caveat_id) by a third party
CreateDischarge(t, max) ==
    /\ Len(dis) < max
    /\ dis' = Append(dis, create(DischargeLoc, t.key, t.id))
    /\ disInfo' = Append(disInfo, [key |-> t.key, binds |-> 0, stale |-> FALSE])
    /\ outcome' = NoCall
    /\ UNCHANGED <<primary, rootKey, verifier, tamper, io>>

\* discharge.add_first_party_caveat(predicate)
DischargeAddFirstParty(i, predicate) ==
    /\ i \in DOMAIN dis
    /\ Len(dis[i].caveats) < MaxDischargeCaveats
    /\ dis' = [dis EXCEPT ![i] = add_first_party_caveat(@, predicate)]
    /\ disInfo' = [disInfo EXCEPT ![i].stale = (disInfo[i].binds > 0)]
    /\ outcome' = NoCall
    /\ UNCHANGED <<primary, rootKey, verifier, tamper, io>>

\* discharge.add_third_party_caveat(location, key, id)
DischargeAddThirdParty(i, t, nonce) ==
    /\ i \in DOMAIN dis
    /\ Len(dis[i].caveats) < MaxDischargeCaveats
    /\ dis' = [dis EXCEPT ![i] = add_third_party_caveat(@, DischargeLoc, t.key, t.id, nonce)]
    /\ disInfo' = [disInfo EXCEPT ![i].stale = (disInfo[i].binds > 0)]
    /\ outcome' = NoCall
    /\ UNCHANGED <<primary, rootKey, verifier, tamper, io>>

\* primary.bind(&mut discharge)
Bind(i) ==
    /\ primary # <<>>
    /\ i \in DOMAIN dis
    /\ disInfo[i].binds < MaxBinds
    /\ dis' = [dis EXCEPT ![i] = bind(primary[1], @)]
    /\ disInfo' = [disInfo EXCEPT ![i].binds = @ + 1]
    /\ outcome' = NoCall
    /\ UNCHANGED <<primary, rootKey, verifier, tamper, io>>

\* verifier.satisfy_exact(b)
SatisfyExact(b) ==
    /\ b \notin verifier.exact
    /\ verifier' = [verifier EXCEPT !.exact = @ \cup {b}]
    /\ outcome' = NoCall
    /\ UNCHANGED <<primary, rootKey, dis, disInfo, tamper, io>>

\* verifier.satisfy_general(f)
SatisfyGeneral(f) ==
    /\ Len(verifier.general) < MaxGeneral
    /\ verifier' = [verifier EXCEPT !.general = Append(@, f)]
    /\ outcome' = NoCall
    /\ UNCHANGED <<primary, rootKey, dis, disInfo, tamper, io>>

\* A token whose field was changed on the way (a Macaroon rebuilt field by
\* field by MacaroonBuilder::build, which keeps the signature it is given):
\* the primary with one field replaced.
OtherId == <<"keyid2">>
ForgedSig == <<"sig_forged">>
ForgedVids == {<<"vid_short">>, <<"vid_forged">>}
\* plaintexts of 24 and of 40 octets, sealed by someone who holds the key
OddPlaintexts == {<<"plain_short">>, <<"plain_long">>}

TamperedValues(kind, i) ==
    LET m == primary[1] IN
    CASE kind = "signature" -> {ForgedSig, hmac(rootKey, m.identifier)} \ {m.signature}
      [] kind = "identifier" -> {OtherId}
      [] kind = "predicate" -> Preds \ {m.caveats[i].predicate}
      [] kind = "id" -> {t.id : t \in Targets} \ {m.caveats[i].id}
      [] kind = "verifier_id" ->
            ForgedVids \cup {<<"enc", m.caveats[i].verifier_id[2], pl, m.caveats[i].verifier_id[4]>> :
                                 pl \in OddPlaintexts}
      [] kind = "location" -> {OtherLoc}

FieldOf(m, kind, i) ==
    CASE kind = "signature" -> m.signature
      [] kind = "identifier" -> m.identifier
      [] kind = "predicate" -> m.caveats[i].predicate
      [] kind = "id" -> m.caveats[i].id
      [] kind = "verifier_id" -> m.caveats[i].verifier_id
      [] kind = "location" -> m.caveats[i].location

WithField(m, kind, i, value) ==
    CASE kind = "signature" -> [m EXCEPT !.signature = value]
      [] kind = "identifier" -> [m EXCEPT !.identifier = value]
      [] kind = "predicate" -> [m EXCEPT !.caveats[i].predicate = value]
      [] kind = "id" -> [m EXCEPT !.caveats[i].id = value]
      [] kind = "verifier_id" -> [m EXCEPT !.caveats[i].verifier_id = value]
      [] kind = "location" -> [m EXCEPT !.caveats[i].location = value]

TamperKinds(i) ==
    IF i = 0 THEN {"signature", "identifier"}
    ELSE IF primary[1].caveats[i].type = "fp" THEN {"predicate"}
    ELSE {"id", "verifier_id", "location"}

Tamper(kind, i, value) ==
    /\ primary # <<>>
    /\ tamper.kind = "none"
    /\ i \in 0..Len(primary[1].caveats)
    /\ kind \in TamperKinds(i)
    /\ value \in TamperedValues(kind, i)
    /\ tamper' = [kind |-> kind, idx |-> i, old |-> FieldOf(primary[1], kind, i)]
    /\ primary' = <<WithField(primary[1], kind, i, value)>>
    /\ outcome' = NoCall
    /\ UNCHANGED <<rootKey, dis, disInfo, verifier, io>>

\* the primary as it was before the change
Untampered == WithField(primary[1], tamper.kind, tamper.idx, tamper.old)

\* the discharge lists a caller can pass: the discharges it holds in any
\* order (Perms), or any of them in any order (Lists)
Perms(n) == {f \in [1..n -> 1..n] : \A a, b \in 1..n : f[a] = f[b] => a = b}
Lists(n) ==
    UNION {{f \in [1..k -> 1..n] : \A a, b \in 1..k : f[a] = f[b] => a = b} : k \in 0..n}
ListOf(f) == [a \in DOMAIN f |-> dis[f[a]]]

\* verifier.verify(&primary, &key, discharges)
Verify(key, f) ==
    /\ primary # <<>>
    /\ LET r == verify(verifier, primary[1], key, ListOf(f))
       IN  outcome' = [called |-> TRUE, key |-> key, discharges |-> f,
                       res |-> r.res, detail |-> r.detail, log |-> r.st.log,
                       used |-> r.st.used, unused |-> DOMAIN r.st.discharge_set]
    /\ UNCHANGED <<primary, rootKey, dis, disInfo, verifier, tamper, io>>

Next ==
    \/ Create(RootKey, PrimaryId)
    \/ \E p \in Preds : AddFirstParty(p)
    \/ \E t \in Targets, n \in Nonces : AddThirdParty(t, n)
    \/ \E t \in Targets : CreateDischarge(t, MaxDischarges)
    \/ \E i \in DOMAIN dis, p \in Preds : DischargeAddFirstParty(i, p)
    \/ \E i \in DOMAIN dis, t \in Targets, n \in Nonces : DischargeAddThirdParty(i, t, n)
    \/ \E i \in DOMAIN dis : Bind(i)
    \/ \E b \in ExactPreds : SatisfyExact(b)
    \/ \E f \in GeneralFns : SatisfyGeneral(f)
    \/ \E key \in VerifyKeys, f \in Lists(Len(dis)) : Verify(key, f)

Spec == Init /\ [][Next]_vars

\* The same operations, and a token that is changed in one field on its way
\* to the verifier.
AllKinds == {"signature", "identifier", "predicate", "id", "verifier_id", "location"}
TamperAny ==
    \E kind \in AllKinds, i \in 0..MaxCaveats :
        /\ primary # <<>>
        /\ tamper.kind = "none"
        /\ i <= Len(primary[1].caveats)
        /\ kind \in TamperKinds(i)
        /\ \E value \in TamperedValues(kind, i) : Tamper(kind, i, value)

NextTamper ==
    \/ tamper.kind = "none" /\ Next
    \/ TamperAny
    \/ tamper.kind # "none" /\ \E f \in Perms(Len(dis)) : Verify(RootKey, f)

SpecTamper == Init /\ [][NextTamper]_vars

\* Chains of discharges: a primary that carries third-party caveats only, and
\* up to MaxChain discharges that may name each other.
NextChain ==
    \/ Create(RootKey, PrimaryId)
    \/ \E t \in Targets, n \in Nonces : AddThirdParty(t, n)
    \/ \E t \in Targets : CreateDischarge(t, MaxChain)
    \/ \E i \in DOMAIN dis : DischargeAddFirstParty(i, TimePred)
    \/ \E i \in DOMAIN dis, t \in Targets, n \in Nonces : DischargeAddThirdParty(i, t, n)
    \/ \E i \in DOMAIN dis : Bind(i)
    \/ \E f \in GeneralFns : SatisfyGeneral(f)
    \/ \E f \in Perms(Len(dis)) : Verify(RootKey, f)

SpecChain == Init /\ [][NextChain]_vars

\* parent.bind(&mut nested): a discharge is bound to another discharge, as by
\* a holder who binds the discharge of a nested caveat to the discharge that
\* carries the caveat
BindNested(i, j) ==
    /\ i \in DOMAIN dis /\ j \in DOMAIN dis /\ i # j
    /\ disInfo[j].binds < MaxBinds
    /\ dis' = [dis EXCEPT ![j] = bind(dis[i], @)]
    /\ disInfo' = [disInfo EXCEPT ![j].binds = @ + 1]
    /\ outcome' = NoCall
    /\ UNCHANGED <<primary, rootKey, verifier, tamper, io>>

\* Nested discharges: the chains of SpecChain, and discharges that are bound
\* to the primary or to another discharge.
NextNested ==
    \/ Create(RootKey, PrimaryId)
    \/ \E t \in Targets, n \in Nonces : AddThirdParty(t, n)
    \/ \E t \in Targets : CreateDischarge(t, MaxChain)
    \/ \E i \in DOMAIN dis, t \in Targets, n \in Nonces : DischargeAddThirdParty(i, t, n)
    \/ \E i \in DOMAIN dis : Bind(i)
    \/ \E i, j \in DOMAIN dis : BindNested(i, j)
    \/ \E f \in Perms(Len(dis)) : Verify(RootKey, f)

SpecNested == Init /\ [][NextNested]_vars

\* The check of one first-party predicate, evaluation by evaluation; io holds
\* the predicate and the check in progress.  The verifier is borrowed for the
\* time of the check: registrations happen between checks.
CheckFns == {"after_time_verifier", "never"}
Checking == IoOp = "first_party" /\ IoRes.at # "done"

\* verifier.satisfy_exact(b), between checks; the check io holds was made
\* with the verifier as it was, and is dropped
RegisterExact(b) ==
    /\ ~Checking
    /\ b \notin verifier.exact
    /\ verifier' = [verifier EXCEPT !.exact = @ \cup {b}]
    /\ io' = NoIo
    /\ UNCHANGED <<primary, rootKey, dis, disInfo, tamper, outcome>>

\* verifier.satisfy_general(f), between checks
RegisterGeneral(f) ==
    /\ ~Checking
    /\ Len(verifier.general) < MaxRegistered
    /\ verifier' = [verifier EXCEPT !.general = Append(@, f)]
    /\ io' = NoIo
    /\ UNCHANGED <<primary, rootKey, dis, disInfo, tamper, outcome>>

\* the loop of verify_with_sig comes to a first-party caveat
CheckStart(predicate) ==
    /\ ~Checking
    /\ io' = <<"first_party", [predicate |-> predicate], first_party_start>>
    /\ UNCHANGED <<primary, rootKey, dis, disInfo, verifier, tamper, outcome>>

\* self.exact.contains(&fp.predicate())
ExactContains ==
    /\ Checking /\ IoRes.at = "exact"
    /\ io' = <<"first_party", IoArg, exact_contains(verifier, IoArg.predicate, IoRes)>>
    /\ UNCHANGED <<primary, rootKey, dis, disInfo, verifier, tamper, outcome>>

\* f(value), for the callback the loop of verify_general is at
GeneralCall ==
    /\ Checking /\ IoRes.at = "general"
    /\ io' = <<"first_party", IoArg, general_call(verifier, IoArg.predicate, IoRes)>>
    /\ UNCHANGED <<primary, rootKey, dis, disInfo, verifier, tamper, outcome>>

NextCheck ==
    \/ \E b \in Preds : RegisterExact(b)
    \/ \E f \in CheckFns : RegisterGeneral(f)
    \/ \E predicate \in Preds : CheckStart(predicate)
    \/ ExactContains
    \/ GeneralCall

SpecCheck == Init /\ [][NextCheck]_vars

\* Macaroon::create on its own, over locations, keys and identifiers, the
\* empty identifier among them; io keeps the arguments and the Result
CreateLocations == {None, Empty, PrimaryLoc, DischargeLoc, OtherLoc}
CreateKeys == {RootKey, OtherKey, KeyD, KeyE, ZeroKey}
CreateIds == {Empty, PrimaryId, OtherId, IdD, IdE}

CreateCall(location, key, identifier) ==
    /\ primary = <<>>
    /\ IoOp = "none"
    /\ LET r == Macaroon_create(location, key, identifier)
       IN  /\ io' = <<"create",
                      [location |-> location, key |-> key, identifier |-> identifier],
                      r.st>>
           /\ primary' = IF r.st = "Ok" THEN <<r.m>> ELSE primary
           /\ rootKey' = IF r.st = "Ok" THEN key ELSE rootKey
    /\ UNCHANGED <<dis, disInfo, verifier, tamper, outcome>>

NextCreate ==
    \E location \in CreateLocations, key \in CreateKeys, identifier \in CreateIds :
        CreateCall(location, key, identifier)

SpecCreate == Init /\ [][NextCreate]_vars

\* ------------------------------------------------- serialization calls
\* the macaroons handed to serialize: identifiers of text, of arbitrary octets
\* and of LongField octets, with and without a location, any mix of caveats
CodecSignature == ByteString([i \in 1..32 |-> (i * 37) % 256])

CodecIds == {ByteString(<<107, 101, 121>>), ByteString(<<0, 255, 32, 10>>),
             ByteString(Octets(LongField - 1, 65)), ByteString(Octets(LongField, 65))}

CodecLocations == {None, ByteString(<<104, 116, 116, 112>>)}

CodecCaveats ==
    {new_first_party(ByteString(<<97, 32, 61, 32, 49>>)),
     new_first_party(ByteString(<<255, 0>>)),
     new_third_party(ByteString(<<99, 105, 100>>), ByteString(Octets(6, 200)),
                     ByteString(<<104, 116, 116, 112>>))}

CodecCaveatLists == UNION {[1..n -> CodecCaveats] : n \in 0..MaxCaveats}

CodecMacaroons ==
    {[identifier |-> id, location |-> l, signature |-> CodecSignature, caveats |-> cs] :
        id \in CodecIds, l \in CodecLocations, cs \in CodecCaveatLists}

\* m.serialize(format)
SerializeCall(m, format) ==
    /\ primary = <<>>
    /\ IoOp = "none"
    /\ io' = <<"serialize", [m |-> m, format |-> format], Macaroon_serialize(m, format)>>
    /\ UNCHANGED <<primary, rootKey, dis, disInfo, verifier, tamper, outcome>>

\* Macaroon::deserialize(token) of the token just serialized
DeserializeSerialized(checks) ==
    /\ IoOp = "serialize"
    /\ io' = <<"roundtrip",
               [m |-> IoArg.m, format |-> IoArg.format, token |-> IoRes, checks |-> checks],
               Macaroon_deserialize(IoRes, checks)>>
    /\ UNCHANGED <<primary, rootKey, dis, disInfo, verifier, tamper, outcome>>

\* the decoder Macaroon::deserialize hands the token to: "V2JSON", "V2",
\* "V1", or "none" when it returns before any decoder runs
Decoder(token) ==
    IF Len(token) = 0 THEN "none"
    ELSE IF token_format(token) = "V2JSON" THEN "V2JSON"
    ELSE LET binary == base64_decode_flexible(token) IN
         IF ~binary.ok THEN "none"
         ELSE IF Len(binary.bytes) = 0 THEN "none"
         ELSE IF binary_format(binary.bytes) = "unknown" THEN "none"
         ELSE binary_format(binary.bytes)

\* a macaroon with a location, a first-party and a third-party caveat
SmallMacaroon ==
    [identifier |-> ByteString(<<107, 101, 121>>),
     location |-> ByteString(<<104, 116, 116, 112>>),
     signature |-> CodecSignature,
     caveats |-> <<new_first_party(ByteString(<<97, 32, 61, 32, 49>>)),
                   new_third_party(ByteString(<<99, 105, 100>>), ByteString(Octets(6, 200)),
                                   ByteString(<<104, 116, 116, 112>>))>>]

Prefixes(b) == {SubSeq(b, 1, n) : n \in 0..Len(b)}

\* binary tokens that are not what a serializer writes: V1 packets with a size
\* beyond the token, of 4 and of 0, with a '+' and with uppercase digits in the
\* header, without a space, with an unknown key; V2 fields with a varint of 2,
\* 3, 4 and 10 octets, with a length beyond the token; other leading octets
OddBinaryTokens ==
    {<<102, 102, 102, 102, 99, 105, 100, 32, 97, 10>>,
     <<48, 48, 48, 52>>, <<48, 48, 48, 48>>,
     <<43, 48, 48, 97, 99, 105, 100, 32, 97, 10>>,
     <<48, 48, 48, 65, 99, 105, 100, 32, 97, 10>>,
     <<48, 48, 48, 57, 99, 105, 100, 97, 10>>,
     <<48, 48, 48, 56, 120, 32, 97, 10>>,
     <<48, 48, 48, 54, 32, 10>>,
     <<195, 169, 195, 169, 32, 10>>,
     <<2, 2, 129, 0, 65, 0, 0, 6>>,
     <<2, 2, 129, 128, 0, 65, 0, 0, 6>>,
     <<2, 2, 129, 128, 128, 0, 65, 0, 0, 6>>,
     <<2, 2>> \o Octets(10, 255) \o <<1, 65>>,
     <<2, 2, 255, 127>>, <<2, 2, 100, 65>>, <<2, 1, 1, 255, 2, 1, 65, 0, 0, 6>>,
     <<2, 3, 1, 65>>, <<2, 2, 1, 65, 1>>, <<2, 2, 1, 65, 0, 5>>,
     <<103>>, <<255, 255, 255>>, <<123>>, <<32, 48, 48>>, <<0>>}

BinaryTokens ==
    Prefixes(serialize_binary(SmallMacaroon)) \union Prefixes(v2_serialize(SmallMacaroon))
        \union OddBinaryTokens

\* base64 text without its padding
Unpadded(c) == SelectSeq(c, LAMBDA x : x # 61)

\* texts that are not base64: a character outside both alphabets, one
\* character, characters of both alphabets, padding in the middle, padding only
OddTexts ==
    {<<46, 46, 46, 46>>, <<65>>, <<65, 43, 95, 65>>, <<65, 61, 65, 65>>, <<61, 61>>,
     <<32, 77, 68, 65>>, <<65, 65, 65, 65, 65>>}

\* the V2JSON tokens: the one a serializer writes, a text serde_json
\* rejects, and the lone '{'
JsonTokens == {v2json_serialize(SmallMacaroon), <<123, <<"malformed">>>>, <<123>>}

\* the tokens handed to Macaroon::deserialize
Tokens ==
    {B64Encode("URL_SAFE", b) : b \in BinaryTokens}
        \union {B64Encode("STANDARD", b) : b \in BinaryTokens}
        \union {Unpadded(B64Encode("URL_SAFE", b)) : b \in BinaryTokens}
        \union (BinaryTokens \ {<<123>>})
        \union OddTexts \union JsonTokens

\* Macaroon::deserialize(token)
DeserializeCall(token, checks) ==
    /\ primary = <<>>
    /\ IoOp = "none"
    /\ io' = <<"deserialize", [token |-> token, checks |-> checks],
               Macaroon_deserialize(token, checks)>>
    /\ UNCHANGED <<primary, rootKey, dis, disInfo, verifier, tamper, outcome>>

\* Macaroon::deserialize_binary(token)
DeserializeBinaryCall(token, checks) ==
    /\ primary = <<>>
    /\ IoOp = "none"
    /\ io' = <<"deserialize_binary", [token |-> token, checks |-> checks],
               deserialize_binary(token, checks)>>
    /\ UNCHANGED <<primary, rootKey, dis, disInfo, verifier, tamper, outcome>>

\* the pairs of members of which a V2JSON document may hold both: i|i64,
\* l|l64, s|s64 of the macaroon and i|i64, l|l64, v|v64 of a caveat
JsonPairs == {"i", "l", "s", "ci", "cl", "cv"}

\* the V2JSON token of SmallMacaroon with the second member of each pair of
\* `pairs` added, of the same value as the member the serializer wrote; the
\* caveat members are added to the third-party caveat
DoubledDocument(pairs) ==
    LET o == v2json_serialize(SmallMacaroon)[2][2]
        tp == Len(o.c)
        url(field) == ByteString(B64Encode("URL_SAFE", field[2]))
        caveat == [o.c[tp] EXCEPT
                     !.i = IF "ci" \in pairs THEN SmallMacaroon.caveats[tp].id ELSE @,
                     !.l64 = IF "cl" \in pairs THEN url(SmallMacaroon.caveats[tp].location)
                             ELSE @,
                     !.v = IF "cv" \in pairs THEN SmallMacaroon.caveats[tp].verifier_id ELSE @]
    IN  <<123, <<"object",
            [o EXCEPT !.i = IF "i" \in pairs THEN SmallMacaroon.identifier ELSE @,
                      !.l64 = IF "l" \in pairs THEN url(SmallMacaroon.location) ELSE @,
                      !.s = IF "s" \in pairs THEN SmallMacaroon.signature ELSE @,
                      !.c = [o.c EXCEPT ![tp] = caveat]]>>>>

\* Macaroon::deserialize of a V2JSON document holding both members of `pairs`
DeserializeDoubled(pairs) ==
    /\ primary = <<>>
    /\ IoOp = "none"
    /\ io' = <<"deserialize_doubled", [pairs |-> pairs, token |-> DoubledDocument(pairs)],
               Macaroon_deserialize(DoubledDocument(pairs), FALSE)>>
    /\ UNCHANGED <<primary, rootKey, dis, disInfo, verifier, tamper, outcome>>

\* the octets of a V2 caveat section of the layout
\* [LOCATION]? IDENTIFIER [VID]? EOS; section.loc and section.vid tell
\* whether the optional fields are there
SectionId == ByteString(<<99, 105, 100>>)
SectionLocation == ByteString(<<104, 116, 116, 112>>)
SectionVid == ByteString(Octets(6, 200))

V2Section(section) ==
    (IF section.loc THEN serialize_field(LOCATION_V2, SectionLocation[2]) ELSE <<>>)
        \o serialize_field(IDENTIFIER_V2, SectionId[2])
        \o (IF section.vid THEN serialize_field(VID_V2, SectionVid[2]) ELSE <<>>)
        \o <<EOS_V2>>

RECURSIVE V2Sections(_, _)
V2Sections(sections, i) ==
    IF i > Len(sections) THEN <<>>
    ELSE V2Section(sections[i]) \o V2Sections(sections, i + 1)

\* a V2 token with the identifier and signature of SmallMacaroon and the
\* caveat sections given
V2Token(sections) ==
    <<2>> \o serialize_field(IDENTIFIER_V2, SmallMacaroon.identifier[2]) \o <<EOS_V2>>
        \o V2Sections(sections, 1) \o <<EOS_V2>>
        \o serialize_field(SIGNATURE_V2, SmallMacaroon.signature[2])

SectionLists ==
    UNION {[1..n -> [loc : BOOLEAN, vid : BOOLEAN]] : n \in 1..MaxCaveats}

\* Macaroon::deserialize_binary of a V2 token with the caveat sections given
DeserializeSections(sections, checks) ==
    /\ primary = <<>>
    /\ IoOp = "none"
    /\ io' = <<"deserialize_sections",
               [sections |-> sections, token |-> V2Token(sections), checks |-> checks],
               deserialize_binary(V2Token(sections), checks)>>
    /\ UNCHANGED <<primary, rootKey, dis, disInfo, verifier, tamper, outcome>>

\* the builders CaveatBuilder::build is called on: CaveatBuilder::new followed
\* by any of add_id, add_verifier_id, add_location
CaveatBuilders ==
    [id : {None, SectionId}, verifier_id : {None, SectionVid},
     location : {None, SectionLocation}]

\* CaveatBuilder::build
BuildCaveat(cb) ==
    /\ primary = <<>>
    /\ IoOp = "none"
    /\ io' = <<"build_caveat", cb, CaveatBuilder_build(cb)>>
    /\ UNCHANGED <<primary, rootKey, dis, disInfo, verifier, tamper, outcome>>

\* the tokens of SmallMacaroon with a signature value of n octets: as the V1,
\* V2 and V2JSON serializers write it (signature packet, SIGNATURE field,
\* member s64), and as a V2JSON document with the member s
SignatureLengths == {0, 1, 31, 32, 33, 64}

SignatureKinds == Formats \union {"V2JSON s"}

SignatureOf(n) == ByteString([i \in 1..n |-> (i * 37) % 256])

SignedToken(kind, n) ==
    IF kind = "V2JSON s"
    THEN <<123, <<"object",
            [v2json_serialize(SmallMacaroon)[2][2] EXCEPT !.s = SignatureOf(n),
                                                          !.s64 = None]>>>>
    ELSE Macaroon_serialize([SmallMacaroon EXCEPT !.signature = SignatureOf(n)], kind)

\* Macaroon::deserialize of a token with a signature value of n octets
DeserializeSigned(kind, n) ==
    /\ primary = <<>>
    /\ IoOp = "none"
    /\ io' = <<"deserialize_signed", [kind |-> kind, n |-> n, token |-> SignedToken(kind, n)],
               Macaroon_deserialize(SignedToken(kind, n), FALSE)>>
    /\ UNCHANGED <<primary, rootKey, dis, disInfo, verifier, tamper, outcome>>

\* varint_size(n) on its own, and Deserializer::get_field_size on the octets
\* it gives, followed by one octet that is not part of the length
VarintSizes == {0, 1, 127, 128, 129, 255, 256, 300, 16383, 16384, 65535}
VarintTail == <<255>>

VarintCall(n, checks) ==
    /\ IoOp = "none"
    /\ io' = <<"varint",
               [n |-> n, checks |-> checks, octets |-> varint_size(n)],
               get_field_size(varint_size(n) \o VarintTail, 0, 0, 0, checks)>>
    /\ UNCHANGED <<primary, rootKey, dis, disInfo, verifier, tamper, outcome>>

\* serialize_as_packet(tag, value) on its own, for values of n octets; io
\* keeps the header of the packet and the number of octets of the packet
PacketTags == {CID_V1, IDENTIFIER_V1}
PacketValueLengths == {0, 1, 6, 250, 4086, 65520, 65526, 65527, 65530}

PacketCall(tag, n) ==
    /\ IoOp = "none"
    /\ LET packet == serialize_as_packet(tag, [i \in 1..n |-> 65])
       IN  io' = <<"packet",
                   [tag |-> tag, n |-> n],
                   [header |-> SubSeq(packet, 1, HEADER_SIZE_V1), len |-> Len(packet)]>>
    /\ UNCHANGED <<primary, rootKey, dis, disInfo, verifier, tamper, outcome>>

\* V1 tokens put together packet by packet: the identifier packet of
\* SmallMacaroon, and after it cid, vid, cl and signature packets in any
\* order; the value of a cid, vid or cl packet ends with the position j of
\* the packet
PacketKinds == {"cid", "vid", "cl", "signature"}

PacketValue(kind, j) ==
    CASE kind = "signature" -> SmallMacaroon.signature
      [] kind = "cid" -> ByteString(SectionId[2] \o <<48 + j>>)
      [] kind = "vid" -> ByteString(SectionVid[2] \o <<48 + j>>)
      [] kind = "cl" -> ByteString(SectionLocation[2] \o <<48 + j>>)

PacketTag(kind) ==
    CASE kind = "signature" -> SIGNATURE_V1
      [] kind = "cid" -> CID_V1
      [] kind = "vid" -> VID_V1
      [] kind = "cl" -> CL_V1

RECURSIVE V1Packets(_, _)
V1Packets(kinds, j) ==
    IF j > Len(kinds) THEN <<>>
    ELSE serialize_as_packet(PacketTag(kinds[j]), PacketValue(kinds[j], j)[2])
             \o V1Packets(kinds, j + 1)

V1Token(kinds) ==
    serialize_as_packet(IDENTIFIER_V1, SmallMacaroon.identifier[2]) \o V1Packets(kinds, 1)

PacketLists == UNION {[1..n -> PacketKinds] : n \in 1..MaxPackets}

\* Macaroon::deserialize_binary of a V1 token with the packets given
DeserializePackets(kinds) ==
    /\ primary = <<>>
    /\ IoOp = "none"
    /\ io' = <<"deserialize_packets",
               [kinds |-> kinds, token |-> V1Token(kinds)],
               deserialize_binary(V1Token(kinds), FALSE)>>
    /\ UNCHANGED <<primary, rootKey, dis, disInfo, verifier, tamper, outcome>>

NextCodec ==
    \/ \E m \in CodecMacaroons, format \in Formats : SerializeCall(m, format)
    \/ \E checks \in BOOLEAN : DeserializeSerialized(checks)
    \/ \E token \in Tokens, checks \in BOOLEAN : DeserializeCall(token, checks)
    \/ \E token \in BinaryTokens, checks \in BOOLEAN : DeserializeBinaryCall(token, checks)
    \/ \E pairs \in SUBSET JsonPairs : DeserializeDoubled(pairs)
    \/ \E sections \in SectionLists, checks \in BOOLEAN : DeserializeSections(sections, checks)
    \/ \E cb \in CaveatBuilders : BuildCaveat(cb)
    \/ \E kind \in SignatureKinds, n \in SignatureLengths : DeserializeSigned(kind, n)
    \/ \E n \in VarintSizes, checks \in BOOLEAN : VarintCall(n, checks)
    \/ \E tag \in PacketTags, n \in PacketValueLengths : PacketCall(tag, n)
    \/ \E kinds \in PacketLists : DeserializePackets(kinds)

SpecCodec == Init /\ [][NextCodec]_vars

\* ------------------------------------------------------------ properties
\* what the properties say about a call: the primary, the list passed, and
\* whether the verifier satisfies a predicate, each stated without the
\* operators of the traversal
P == primary[1]
Passed == ListOf(outcome.discharges)
SatisfiedBy(v, predicate) ==
    \/ predicate \in v.exact
    \/ \E i \in DOMAIN v.general : Accepts(v.general[i], predicate)
FirstParty(m) == {i \in DOMAIN m.caveats : m.caveats[i].type = "fp"}
ThirdParty(m) == {i \in DOMAIN m.caveats : m.caveats[i].type = "tp"}
AllSatisfied(m) == \A i \in FirstParty(m) : SatisfiedBy(verifier, m.caveats[i].predicate)
Range(seq) == {seq[i] : i \in DOMAIN seq}

\* C1: verify returns Ok only if every first-party caveat of the primary and
\* of every discharge consumed during the traversal is satisfied by the
\* verifier (its predicate is in the exact set or a general callback accepts it).
C1_OkOnlyIfSatisfied ==
    (outcome.called /\ outcome.res = "Ok") =>
        /\ AllSatisfied(P)
        /\ \A d \in Range(outcome.used) : AllSatisfied(d)

C1_Witness ==
    /\ outcome.called /\ outcome.res = "Ok"
    /\ FirstParty(P) # {}
    /\ \E d \in Range(outcome.used) : FirstParty(d) # {}

\* the fold of the per-caveat signing rules over caveats[1..n], from sig
RECURSIVE ChainFold(_, _, _)
ChainFold(sig, caveats, n) ==
    IF n = 0 THEN sig
    ELSE LET c == caveats[n]
             prev == ChainFold(sig, caveats, n - 1)
         IN  IF c.type = "fp" THEN <<"hmac", prev, c.predicate>>
             ELSE <<"hmac", prev, <<"cat", <<"hmac", prev, c.verifier_id>>,
                                            <<"hmac", prev, c.id>>>>>>
ChainOf(key, m) == ChainFold(<<"hmac", key, m.identifier>>, m.caveats, Len(m.caveats))

\* C2: after create and any sequence of add_first_party_caveat and
\* add_third_party_caveat calls, the signature is the fold of the signing
\* rules over the caveats in stored order, starting from hmac(root_key, id).
\* It is stated of the primary and of every discharge not yet bound.
C2_SignatureIsChain ==
    /\ primary # <<>> => P.signature = ChainOf(rootKey, P)
    /\ \A i \in DOMAIN dis :
          disInfo[i].binds = 0 => dis[i].signature = ChainOf(disInfo[i].key, dis[i])

C2_Witness ==
    /\ primary # <<>>
    /\ FirstParty(P) # {} /\ ThirdParty(P) # {}
    /\ \E i \in DOMAIN dis : disInfo[i].binds = 0 /\ dis[i].caveats # <<>>

\* C3: a macaroon made by create(loc, k, id) and any sequence of
\* add_first_party_caveat calls verifies Ok under k with an empty discharge
\* list whenever the verifier satisfies every one of its predicates.
C3_AttenuatedVerifies ==
    ( /\ outcome.called
      /\ outcome.key = rootKey
      /\ outcome.discharges = <<>>
      /\ ThirdParty(P) = {}
      /\ AllSatisfied(P) ) => outcome.res = "Ok"

C3_Witness ==
    /\ outcome.called /\ outcome.key = rootKey /\ outcome.discharges = <<>>
    /\ ThirdParty(P) = {} /\ AllSatisfied(P) /\ outcome.res = "Ok"
    /\ \E i, j \in FirstParty(P) :
          /\ P.caveats[i].predicate \in verifier.exact
          /\ P.caveats[j].predicate \notin verifier.exact

\* the discharge dis[i] answers the third-party caveat c: it was created with
\* the caveat's identifier and root key
Answers(i, c) == dis[i].identifier = c.id /\ disInfo[i].key = c.verifier_id[3]
\* dis[i] was bound to the primary once, and neither it nor the primary was
\* attenuated afterwards
WellBound(i) == disInfo[i].binds = 1 /\ ~disInfo[i].stale

\* C4: the primary has a third-party caveat made by
\* add_third_party_caveat(loc, cav_key, cid); the discharge is
\* create(loc, cav_key, cid) plus first-party caveats the verifier satisfies,
\* bound with primary.bind(discharge) after the primary's last attenuation:
\* then verify(primary, root_key, [discharge]) returns Ok.  The caveats the
\* claim does not speak of, the other caveats of the primary, are first-party
\* caveats that the verifier satisfies.
C4_BoundDischargeVerifies ==
    ( /\ outcome.called
      /\ outcome.key = rootKey
      /\ Len(outcome.discharges) = 1
      /\ Cardinality(ThirdParty(P)) = 1
      /\ AllSatisfied(P)
      /\ LET i == outcome.discharges[1] IN
           /\ \A c \in ThirdParty(P) : Answers(i, P.caveats[c])
           /\ ThirdParty(dis[i]) = {}
           /\ AllSatisfied(dis[i])
           /\ WellBound(i) ) => outcome.res = "Ok"

C4_Witness ==
    /\ outcome.called /\ outcome.key = rootKey /\ outcome.res = "Ok"
    /\ Len(outcome.discharges) = 1
    /\ Cardinality(ThirdParty(P)) = 1 /\ FirstParty(P) # {}
    /\ LET i == outcome.discharges[1] IN
         /\ \A c \in ThirdParty(P) : Answers(i, P.caveats[c])
         /\ FirstParty(dis[i]) # {} /\ WellBound(i)

\* C5: a discharge that was never bound is rejected: verify(primary,
\* root_key, [discharge]) returns an error, also when the discharge's
\* identifier, key and caveats are all correct.
Errors == {"CaveatNotSatisfied", "CryptoError", "InvalidSignature", "DischargeNotUsed"}

C5_UnboundRejected ==
    ( /\ outcome.called
      /\ outcome.key = rootKey
      /\ Len(outcome.discharges) = 1
      /\ disInfo[outcome.discharges[1]].binds = 0 ) => outcome.res \in Errors

C5_Witness ==
    /\ outcome.called /\ outcome.key = rootKey
    /\ Len(outcome.discharges) = 1
    /\ Cardinality(ThirdParty(P)) = 1 /\ AllSatisfied(P)
    /\ LET i == outcome.discharges[1] IN
         /\ \A c \in ThirdParty(P) : Answers(i, P.caveats[c])
         /\ ThirdParty(dis[i]) = {} /\ FirstParty(dis[i]) # {} /\ AllSatisfied(dis[i])
         /\ disInfo[i].binds = 0
    /\ outcome.res = "InvalidSignature"

\* the first first-party caveat of m, in stored order, that the verifier does
\* not satisfy; 0 if there is none
FirstUnsatisfied(m) ==
    LET bad == {i \in FirstParty(m) : ~SatisfiedBy(verifier, m.caveats[i].predicate)}
    IN  IF bad = {} THEN 0 ELSE CHOOSE i \in bad : \A j \in bad : i <= j

\* the caveats of the primary that the call examined, in the order examined
ExaminedPrimary ==
    LET AtPrimary(e) == e[1] = 0 IN SelectSeq(outcome.log, AtPrimary)

C7_WrongKeyInvalidSignature ==
    ( /\ outcome.called
      /\ outcome.key # rootKey
      /\ ThirdParty(P) = {}
      /\ AllSatisfied(P) ) => outcome.res = "InvalidSignature"

C7_Witness ==
    /\ outcome.called /\ outcome.key # rootKey
    /\ Len(P.caveats) = 2 /\ ThirdParty(P) = {} /\ AllSatisfied(P)
    /\ outcome.discharges = <<>>
    /\ outcome.res = "InvalidSignature"

\* the identifiers named by the third-party caveats of m
TpIds(m) == {m.caveats[i].id : i \in ThirdParty(m)}

\* the identifiers named by the primary directly, or through the discharges
\* passed that are themselves named
RECURSIVE NamedFrom(_, _)
NamedFrom(S, n) ==
    IF n = 0 THEN S
    ELSE NamedFrom(S \cup UNION {TpIds(d) : d \in {x \in Range(Passed) : x.identifier \in S}},
                   n - 1)
Named == NamedFrom(TpIds(P), MaxChain)
NamedOnly == LET IsNamed(d) == d.identifier \in Named IN SelectSeq(Passed, IsNamed)

PassedSet == Collect(Passed)

\* the identifiers reached from the discharge d of discharge_set through the
\* third-party caveats of the discharges of discharge_set
RECURSIVE ReachedFrom(_, _)
ReachedFrom(S, n) ==
    IF n = 0 THEN S
    ELSE ReachedFrom(S \cup UNION {TpIds(PassedSet[k]) : k \in S \cap DOMAIN PassedSet}, n - 1)
OnCycle(d) == d.identifier \in ReachedFrom(TpIds(d), MaxChain)

\* the discharge d, created with key, was attenuated and then bound to the
\* primary as it stands: each verifier_id of d is sealed under the chain
\* signature that precedes it, and the signature of d is the binding of its
\* chain signature to the signature of the primary
SealedInChain(d, key) ==
    \A c \in ThirdParty(d) :
        d.caveats[c].verifier_id[2] =
            ChainFold(<<"hmac", key, d.identifier>>, d.caveats, c - 1)
BoundToPrimary(d, key) ==
    d.signature =
        <<"hmac", ZeroKey, <<"cat", <<"hmac", ZeroKey, P.signature>>,
                                    <<"hmac", ZeroKey, ChainOf(key, d)>>>>>>
BuiltThenBound ==
    \A a \in DOMAIN outcome.discharges :
        LET key == disInfo[outcome.discharges[a]].key
        IN  SealedInChain(Passed[a], key) /\ BoundToPrimary(Passed[a], key)

ChangedValidToken ==
    /\ outcome.called
    /\ tamper.kind # "none"
    /\ verify(verifier, Untampered, outcome.key, Passed).res = "Ok"

\* C10: changing the stored signature, the identifier, a first-party
\* predicate, or the id or the verifier_id of a third-party caveat of an
\* otherwise valid macaroon makes verify fail (a verifier_id changed to
\* other bytes of a full length ends the call in the panic of decrypt, not in
\* an error value; a shortened one in CryptoError).  Changing the location of
\* a third-party caveat does not: the location is not signed, and verify
\* still returns Ok.
C10_ChangedFieldFails ==
    ChangedValidToken =>
        IF tamper.kind = "location" THEN outcome.res = "Ok" ELSE outcome.res # "Ok"

C10_Witness ==
    /\ ChangedValidToken
    /\ tamper.kind = "predicate"
    /\ Len(P.caveats) = 2
    /\ AllSatisfied(P)
    /\ outcome.res = "InvalidSignature"

\* C10 as stated: a change of any of the fields, the location of a
\* third-party caveat included, makes verify fail
C10_AsStated == ChangedValidToken => outcome.res # "Ok"

\* the step is a call p.bind(d) on the discharge dis[i]
BindStep(i) == i \in DOMAIN disInfo' /\ disInfo'[i].binds = disInfo[i].binds + 1

\* C11: after p.bind(d) the signature of d is hmac2(0^32, p.signature, the
\* signature d had before), and nothing else is changed: p is as it was, the
\* identifier, the location and the caveats of d are as they were, and so are
\* the other discharges.
C11_BindFrame ==
    [][\A i \in DOMAIN dis :
          BindStep(i) =>
              /\ dis'[i].signature =
                    <<"hmac", ZeroKey,
                      <<"cat", <<"hmac", ZeroKey, primary[1].signature>>,
                               <<"hmac", ZeroKey, dis[i].signature>>>>>>
              /\ primary' = primary
              /\ dis'[i].identifier = dis[i].identifier
              /\ dis'[i].location = dis[i].location
              /\ dis'[i].caveats = dis[i].caveats
              /\ DOMAIN dis' = DOMAIN dis
              /\ \A j \in DOMAIN dis \ {i} : dis'[j] = dis[j]]_vars

\* a discharge with caveats, of another location than the primary, was bound
\* to a primary with caveats
C11_Witness ==
    /\ primary # <<>> /\ P.caveats # <<>>
    /\ \E i \in DOMAIN dis :
          /\ disInfo[i].binds = 1
          /\ dis[i].caveats # <<>>
          /\ dis[i].location # P.location
          /\ dis[i].signature =
                <<"hmac", ZeroKey,
                  <<"cat", <<"hmac", ZeroKey, P.signature>>,
                           <<"hmac", ZeroKey, ChainOf(disInfo[i].key, dis[i])>>>>>>

\* the lists that hold the discharges of the call in another order
Reorderings ==
    {g \in [DOMAIN outcome.discharges -> Range(outcome.discharges)] :
        \A a, b \in DOMAIN g : g[a] = g[b] => a = b}

\* C13: the result of verify depends only on the multiset of discharges
\* passed: every reordering of the list of a call, lists holding two
\* discharges with one identifier included, gives the result of the call.
C13_OrderIrrelevant ==
    outcome.called =>
        \A g \in Reorderings :
            verify(verifier, P, outcome.key, ListOf(g)).res = outcome.res

\* the verifier_id of the i-th caveat of m is the sealing of a key of
\* KEY_BYTES octets under the chain signature that verify, given key, has
\* reached at that caveat
ProperSeal(m, key, i) ==
    LET vid == m.caveats[i].verifier_id
    IN  /\ vid[1] = "enc"
        /\ vid[2] = ChainFold(<<"hmac", key, m.identifier>>, m.caveats, i - 1)
        /\ ByteLen(vid[3]) = KEY_BYTES

\* the third-party caveats of the primary that the call examined and whose
\* verifier_id does not decrypt to a key
FailedSeals ==
    {e \in Range(outcome.log) :
        /\ e[1] = 0
        /\ P.caveats[e[2]].type = "tp"
        /\ ~ProperSeal(P, outcome.key, e[2])}

\* C14: every failure of decrypt_key is the error value CryptoError: when the
\* traversal comes to a third-party caveat whose verifier_id is too short,
\* fails the tag check under the current chain signature, or decrypts to a
\* plaintext that is not of 32 octets, verify returns Err(CryptoError), and
\* the process does not panic.
C14_DecryptFailureIsCryptoError ==
    outcome.called =>
        /\ outcome.res # "Panic"
        /\ FailedSeals # {} => outcome.res = "CryptoError"

\* C15: Macaroon::create(loc, k, id) returns IncompleteMacaroon when id is
\* empty; for every id that is not, it returns a macaroon with identifier id,
\* location loc, no caveats and signature hmac(k, id).
C15_Create ==
    IoOp = "create" =>
        IF IoArg.identifier = Empty
        THEN IoRes = "IncompleteMacaroon" /\ primary = <<>>
        ELSE /\ IoRes = "Ok"
             /\ primary # <<>>
             /\ P.identifier = IoArg.identifier
             /\ P.location = IoArg.location
             /\ P.caveats = <<>>
             /\ P.signature = <<"hmac", IoArg.key, IoArg.identifier>>

C15_Witness ==
    /\ IoOp = "create" /\ IoRes = "Ok"
    /\ IoArg.location = None
    /\ primary # <<>> /\ P.signature = <<"hmac", OtherKey, IdD>>

\* C12: for every macaroon m (with or without a location, with an identifier
\* of arbitrary octets, with any mix of first- and third-party caveats) and
\* every format F, Macaroon::deserialize(m.serialize(F)) succeeds and equals
\* m, caveat order and signature included.
C12_RoundTrip ==
    IoOp = "roundtrip" => IoRes.st = "Ok" /\ IoRes.m = IoArg.m


\* C16 as stated: Macaroon::deserialize selects the decoder by the leading byte
\* of the token given to it: '{' selects V2JSON, 0x02 selects V2, a character
\* of [A-Za-z0-9+/_-] selects V1, and any other leading byte yields
\* DeserializationError.
C16_LeadingByte(b) ==
    IF b = 123 THEN "V2JSON"
    ELSE IF b = 2 THEN "V2"
    ELSE IF (b >= 65 /\ b <= 90) \/ (b >= 97 /\ b <= 122) \/ (b >= 48 /\ b <= 57)
                \/ b \in {43, 47, 95, 45}
    THEN "V1"
    ELSE "none"

C16_AsStated ==
    (IoOp = "deserialize" /\ Len(IoArg.token) > 0) =>
        /\ Decoder(IoArg.token) = C16_LeadingByte(IoArg.token[1])
        /\ C16_LeadingByte(IoArg.token[1]) = "none" => IoRes.st = "DeserializationError"

\* C16 (amended): Macaroon::deserialize takes a token with the leading byte '{'
\* for V2JSON; every other token is decoded as base64 and the leading byte of
\* the decoded octets selects the decoder: 0x02 selects V2, one of a-f, A-Z,
\* 0-9 selects V1; an empty token, a text that is not base64, no decoded
\* octets and any other leading octet yield DeserializationError. The result
\* is the selected decoder's.
C16_DecodedByte(b) ==
    IF b = 2 THEN "V2"
    ELSE IF (b >= 97 /\ b <= 102) \/ (b >= 65 /\ b <= 90) \/ (b >= 48 /\ b <= 57) THEN "V1"
    ELSE "none"

C16_Selected(token) ==
    IF Len(token) = 0 THEN "none"
    ELSE IF token[1] = 123 THEN "V2JSON"
    ELSE LET binary == base64_decode_flexible(token) IN
         IF ~binary.ok \/ Len(binary.bytes) = 0 THEN "none"
         ELSE C16_DecodedByte(binary.bytes[1])

C16_Sniffing ==
    IoOp = "deserialize" =>
        LET token == IoArg.token
            octets == base64_decode_flexible(token).bytes
            selected == C16_Selected(token)
        IN  /\ Decoder(token) = selected
            /\ selected = "none" => IoRes = Failed("DeserializationError")
            /\ selected = "V2JSON" => IoRes = Validated(Validated(v2json_deserialize(token)))
            /\ selected = "V2" =>
                    IoRes = Validated(Validated(v2_deserialize(octets, IoArg.checks)))
            /\ selected = "V1" => IoRes = Validated(Validated(v1_deserialize(octets)))

\* a base64 token whose decoded octets begin with 0x02 went to the V2 decoder
C16_Witness ==
    /\ IoOp = "deserialize"
    /\ Len(IoArg.token) > 0
    /\ IoArg.token[1] = 65
    /\ Decoder(IoArg.token) = "V2"
    /\ IoRes.st = "Ok"
    /\ IoRes.m = SmallMacaroon

\* C17: for every byte string, Macaroon::deserialize and
\* Macaroon::deserialize_binary return a macaroon or an error value; they
\* never panic.
C17_NeverPanics ==
    IoOp \in {"deserialize", "deserialize_binary"} => IoRes.st # "Panic"

\* C18: a V2JSON document that holds both members of one of the pairs i|i64,
\* l|l64, s|s64 of the macaroon or i|i64, l|l64, v|v64 of a caveat is rejected
\* by Macaroon::deserialize.
C18_BothRejected ==
    (IoOp = "deserialize_doubled" /\ IoArg.pairs # {}) => IoRes.st # "Ok"

C21_Keys(token) ==
    LET read == deserialize_as_packets(token, <<>>) IN
    IF read.st = "Ok" THEN {read.packets[k].key : k \in DOMAIN read.packets} ELSE {}

C21_MissingFieldFails ==
    (/\ IoOp = "deserialize_binary"
     /\ Len(IoArg.token) > 0
     /\ binary_format(IoArg.token) = "V1"
     /\ deserialize_as_packets(IoArg.token, <<>>).st = "Ok"
     /\ (SIGNATURE_V1 \notin C21_Keys(IoArg.token)
            \/ IDENTIFIER_V1 \notin C21_Keys(IoArg.token)))
        => IoRes.st # "Ok"

\* C22: in all three formats (V1 signature packet, V2 SIGNATURE field, V2JSON
\* s and s64) a signature value whose length is not exactly 32 octets makes
\* deserialization fail with DeserializationError; a signature of 32 octets
\* is the signature of the macaroon produced.
C22_SignatureLength ==
    IoOp = "deserialize_signed" =>
        IF IoArg.n = 32
        THEN IoRes.st = "Ok" /\ IoRes.m = [SmallMacaroon EXCEPT !.signature = SignatureOf(32)]
        ELSE IoRes = Failed("DeserializationError")

\* a V1 token with a signature packet of 33 octets was rejected
C22_Witness ==
    /\ IoOp = "deserialize_signed"
    /\ IoArg.kind = "V1" /\ IoArg.n = 33
    /\ IoRes.st = "DeserializationError"

\* The caveats verify examined, in order, as <<macaroon, index, took>>: the
\* macaroon the caveat belongs to (the primary at depth 0, below it the
\* discharge taken last at the depth above) and whether the caveat took a
\* discharge out of discharge_set.  Every third-party caveat examined takes
\* the next discharge of outcome.used, but for the last, on which the
\* traversal may have stopped.
RECURSIVE C23_Walk(_, _, _, _)
C23_Walk(k, stack, u, acc) ==
    IF k > Len(outcome.log) THEN acc
    ELSE
      LET depth == outcome.log[k][1]
          i == outcome.log[k][2]
          m == stack[depth + 1]
          took == m.caveats[i].type = "tp" /\ u <= Len(outcome.used)
      IN  C23_Walk(k + 1,
                   IF took THEN Append(SubSeq(stack, 1, depth + 1), outcome.used[u])
                   ELSE SubSeq(stack, 1, depth + 1),
                   IF took THEN u + 1 ELSE u,
                   Append(acc, <<m, i, took>>))
C23_Examined == C23_Walk(1, <<P>>, 1, <<>>)
C23_Caveat(e) == e[1].caveats[e[2]]

\* the verifier_id of the caveat opens under the chain signature that
\* precedes the caveat in its macaroon, as it does when the caveat was added
\* by add_third_party_caveat to a macaroon not yet bound
C23_Opens(e) ==
    \E key \in {outcome.key} \cup {t.key : t \in Targets} :
        decrypt_key(ChainFold(<<"hmac", key, e[1].identifier>>, e[1].caveats, e[2] - 1),
                    C23_Caveat(e).verifier_id).st = "ok"

\* C23: within one verify call each discharge is consumed at most once.  No
\* identifier is taken out of discharge_set twice, and when the traversal
\* reaches a third-party caveat (of the primary or of a discharge) that names
\* the identifier of a third-party caveat examined before it, nothing is
\* taken for it, the traversal stops there and, the verifier_id of that
\* caveat being one that opens, verify returns CaveatNotSatisfied, "no
\* discharge macaroon found".
C23_ConsumedOnce ==
    outcome.called =>
        /\ \A a, b \in DOMAIN outcome.used :
              a # b => outcome.used[a].identifier # outcome.used[b].identifier
        /\ \A a, b \in DOMAIN C23_Examined :
              (/\ a < b
               /\ C23_Caveat(C23_Examined[a]).type = "tp"
               /\ C23_Caveat(C23_Examined[b]).type = "tp"
               /\ C23_Caveat(C23_Examined[a]).id = C23_Caveat(C23_Examined[b]).id)
              => /\ b = Len(C23_Examined)
                 /\ ~C23_Examined[b][3]
                 /\ outcome.res # "Ok"
                 /\ C23_Opens(C23_Examined[b]) =>
                       /\ outcome.res = "CaveatNotSatisfied"
                       /\ outcome.detail = <<"no discharge macaroon found">>

\* the primary names one identifier twice; the discharge for it is valid, was
\* taken for the first caveat, and the second caveat fails
C23_Witness ==
    /\ outcome.called
    /\ Len(P.caveats) = 2
    /\ P.caveats[1].type = "tp" /\ P.caveats[2].type = "tp"
    /\ P.caveats[1].id = P.caveats[2].id
    /\ outcome.log = <<<<0, 1>>, <<0, 2>>>>
    /\ Len(outcome.used) = 1
    /\ BuiltThenBound
    /\ outcome.res = "CaveatNotSatisfied"

\* a discharge names the identifier the primary named before it
C23_WitnessNested ==
    /\ outcome.called
    /\ Len(outcome.used) = 2
    /\ \E b \in DOMAIN C23_Examined :
          /\ C23_Examined[b][1] # P
          /\ C23_Caveat(C23_Examined[b]).type = "tp"
          /\ C23_Caveat(C23_Examined[b]).id \in TpIds(P)
          /\ C23_Caveat(C23_Examined[b]).id # C23_Examined[b][1].identifier
    /\ outcome.res = "CaveatNotSatisfied"

\* the key a third party creates the discharge for identifier id with
C24_KeyFor(id) == (CHOOSE t \in Targets : t.id = id).key

\* the discharge d carries a binding to a signature other than the primary's
C24_BoundElsewhere(d) ==
    /\ d.signature[1] = "hmac" /\ d.signature[2] = ZeroKey
    /\ d.signature[3][1] = "cat"
    /\ d.signature[3][3] = <<"hmac", ZeroKey, ChainOf(C24_KeyFor(d.identifier), d)>>
    /\ d.signature[3][2] # <<"hmac", ZeroKey, P.signature>>

\* the discharge d was taken for a third-party caveat of another discharge
C24_Nested(d) ==
    \E b \in DOMAIN C23_Examined :
        /\ C23_Examined[b][3]
        /\ C23_Examined[b][1] # P
        /\ C23_Caveat(C23_Examined[b]).id = d.identifier

\* C24: the discharge of a third-party caveat that is carried by another
\* discharge is checked against the signature of the primary.  verify returns
\* Ok only if every discharge taken, nested ones included, carries
\* hmac2(0^32, primary.signature, its own chain signature); and when the
\* discharge taken last is nested, has no caveats of its own and is bound to
\* another signature than the primary's (to its parent discharge), verify
\* returns InvalidSignature.
C24_NestedBoundToPrimary ==
    outcome.called =>
        /\ outcome.res = "Ok" =>
              \A d \in Range(outcome.used) : BoundToPrimary(d, C24_KeyFor(d.identifier))
        /\ (/\ Len(outcome.used) > 0
            /\ LET d == outcome.used[Len(outcome.used)]
               IN  C24_Nested(d) /\ d.caveats = <<>> /\ C24_BoundElsewhere(d))
           => outcome.res = "InvalidSignature"

\* a nested discharge bound to the primary is accepted ...
C24_Witness ==
    /\ outcome.called
    /\ outcome.res = "Ok"
    /\ \E d \in Range(outcome.used) : C24_Nested(d)

\* ... and the same chain with the nested discharge bound to its parent, the
\* parent being bound to the primary, is rejected
C24_WitnessParent ==
    /\ outcome.called
    /\ Len(outcome.used) = 2
    /\ C24_Nested(outcome.used[2])
    /\ BoundToPrimary(outcome.used[1], C24_KeyFor(outcome.used[1].identifier))
    /\ outcome.used[2].signature =
          hmac2(ZeroKey, outcome.used[1].signature,
                ChainOf(C24_KeyFor(outcome.used[2].identifier), outcome.used[2]))
    /\ outcome.res = "InvalidSignature"

\* the evaluations of the check in progress, and the callbacks among them
C25_Events == IoRes.events
C25_Called == {C25_Events[k][2] : k \in {x \in DOMAIN C25_Events : C25_Events[x][1] = "general"}}

\* C25: in the check of a first-party predicate the exact set is consulted
\* before any general callback; no callback is called for a predicate of the
\* exact set; otherwise the callbacks are called in registration order, each
\* one only after all callbacks registered before it returned false, and
\* when the check is done every callback up to the first that returns true
\* was called.  The value of the check is that of the test of the
\* first-party arm.
C25_ExactBeforeGeneral ==
    IoOp = "first_party" =>
        /\ C25_Events # <<>> => C25_Events[1] = <<"exact", 0>>
        /\ \A k \in DOMAIN C25_Events : k > 1 => C25_Events[k] = <<"general", k - 1>>
        /\ IoArg.predicate \in verifier.exact => C25_Called = {}
        /\ \A i \in C25_Called, j \in 1..Len(verifier.general) :
              j < i => ~Accepts(verifier.general[j], IoArg.predicate)
        /\ (IoRes.at = "done" /\ IoArg.predicate \notin verifier.exact) =>
              \A i \in 1..Len(verifier.general) :
                  i \in C25_Called <=>
                      \A j \in 1..(i - 1) : ~Accepts(verifier.general[j], IoArg.predicate)
        /\ IoRes.at = "done" => IoRes.ok = Satisfies(verifier, IoArg.predicate)

\* three callbacks are registered, the second is the first to return true:
\* two were called and the third was not
C25_Witness ==
    /\ IoOp = "first_party"
    /\ IoRes.at = "done"
    /\ Len(verifier.general) = 3
    /\ verifier.exact # {}
    /\ C25_Events = <<<<"exact", 0>>, <<"general", 1>>, <<"general", 2>>>>
    /\ Accepts(verifier.general[3], IoArg.predicate)
    /\ IoRes.ok

\* the predicate is in the exact set and callbacks that accept it are
\* registered: none was called
C25_WitnessExact ==
    /\ IoOp = "first_party"
    /\ IoRes.at = "done"
    /\ IoArg.predicate \in verifier.exact
    /\ \E i \in DOMAIN verifier.general : Accepts(verifier.general[i], IoArg.predicate)
    /\ C25_Events = <<<<"exact", 0>>>>

C27_Hex(h) == 4096 * HexVal(h[1]) + 256 * HexVal(h[2]) + 16 * HexVal(h[3]) + HexVal(h[4])

\* C27: every packet of V1 serialization starts with 4 hexadecimal digits
\* whose value is the number of octets of the whole packet,
\* 4 + len(key) + 1 + len(value) + 1, for every length of the value: no
\* packet is emitted whose header states another size.
C27_HeaderIsSize ==
    IoOp = "packet" =>
        /\ \A k \in 1..4 : HexVal(IoRes.header[k]) >= 0
        /\ IoRes.len = HEADER_SIZE_V1 + Len(IoArg.tag) + 1 + IoArg.n + 1
        /\ C27_Hex(IoRes.header) = IoRes.len

\* the step is a call p.add_first_party_caveat or p.add_third_party_caveat
C28_Attenuation ==
    /\ primary # <<>> /\ primary' # <<>>
    /\ Len(primary'[1].caveats) = Len(primary[1].caveats) + 1

\* the discharge d carries the binding to the primary as it was before its
\* last caveat was added
C28_BoundBeforeLast(d, key) ==
    /\ P.caveats # <<>>
    /\ d.signature =
          hmac2(ZeroKey,
                ChainFold(<<"hmac", rootKey, P.identifier>>, P.caveats, Len(P.caveats) - 1),
                ChainOf(key, d))

\* C28: binding must follow the last attenuation of the primary.  A call of
\* add_first_party_caveat or add_third_party_caveat on p changes p.signature,
\* and for every discharge d bound to p before the call, verify(p, root_key,
\* discharges) fails for every list of discharges that holds d, the list [d]
\* among them.
C28_BindAfterAttenuation ==
    [][C28_Attenuation =>
          /\ primary'[1].signature # primary[1].signature
          /\ \A i \in DOMAIN dis :
                disInfo[i].binds > 0 =>
                    \A f \in Lists(Len(dis)) :
                        (\E a \in DOMAIN f : f[a] = i) =>
                            verify(verifier', primary'[1], rootKey, ListOf(f)).res # "Ok"]_vars

\* the discharge was bound to the primary, which verified with it; then a
\* first-party caveat that the verifier satisfies was added to the primary,
\* and the call fails on the binding of the discharge
C28_Witness ==
    /\ outcome.called /\ outcome.key = rootKey
    /\ outcome.discharges = <<1>>
    /\ Len(P.caveats) = 2
    /\ P.caveats[1].type = "tp"
    /\ P.caveats[2].type = "fp" /\ Satisfies(verifier, P.caveats[2].predicate)
    /\ C28_BoundBeforeLast(dis[1], disInfo[1].key)
    /\ verify(verifier, [P EXCEPT !.caveats = SubSeq(@, 1, 1),
                                  !.signature = ChainFold(<<"hmac", rootKey, P.identifier>>,
                                                          P.caveats, 1)],
              rootKey, <<dis[1]>>).res = "Ok"
    /\ outcome.res = "InvalidSignature"

\* the verifiers a caller can build from the predicates and callbacks at hand
C29_Verifiers ==
    {[exact |-> e, general |-> g] :
        e \in SUBSET Preds,
        g \in {<<>>} \cup {<<f>> : f \in GeneralFns}}

\* the step is a call p.add_first_party_caveat on a primary that has
\* first-party caveats only
C29_Attenuation ==
    /\ C28_Attenuation
    /\ ThirdParty(primary[1]) = {}
    /\ primary'[1].caveats[Len(primary'[1].caveats)].type = "fp"

\* C29: attenuation never widens authority.  For a macaroon m with
\* first-party caveats only, every key k and every verifier: when
\* verify(m, k, []) fails, verify(m', k, []) fails for the macaroon m' that
\* add_first_party_caveat makes of m.
C29_NeverWidens ==
    [][C29_Attenuation =>
          \A k \in VerifyKeys, v \in C29_Verifiers :
              verify(v, primary[1], k, <<>>).res # "Ok" =>
                  verify(v, primary'[1], k, <<>>).res # "Ok"]_vars

\* a macaroon whose first predicate the verifier does not satisfy was given
\* a second predicate that the verifier satisfies, and still fails under the
\* root key
C29_Witness ==
    /\ outcome.called /\ outcome.key = rootKey /\ outcome.discharges = <<>>
    /\ Len(P.caveats) = 2 /\ ThirdParty(P) = {}
    /\ ~Satisfies(verifier, P.caveats[1].predicate)
    /\ Satisfies(verifier, P.caveats[2].predicate)
    /\ outcome.res = "CaveatNotSatisfied"

\* the positions of the cid packets of the token, and what a caveat was made
\* of: the value of its cid packet is its predicate or its identifier
C30_Cids == {j \in DOMAIN IoArg.kinds : IoArg.kinds[j] = "cid"}
C30_CidOf(c) == IF c.type = "fp" THEN c.predicate ELSE c.id

\* C30: V1 deserialization drops nothing silently.  Whenever it succeeds, the
\* macaroon has exactly one caveat per cid packet of the token, in packet
\* order, and the value of every vid and cl packet of the token, wherever
\* the packet stands, is the verifier_id or the location of one of those
\* caveats.
C30_NothingDropped ==
    (IoOp = "deserialize_packets" /\ IoRes.st = "Ok") =>
        /\ Len(IoRes.m.caveats) = Cardinality(C30_Cids)
        /\ \A j \in C30_Cids :
              LET k == Cardinality({x \in C30_Cids : x <= j})
              IN  /\ k <= Len(IoRes.m.caveats)
                  /\ C30_CidOf(IoRes.m.caveats[k]) = PacketValue("cid", j)
        /\ \A j \in DOMAIN IoArg.kinds :
              /\ IoArg.kinds[j] = "vid" =>
                    \E k \in DOMAIN IoRes.m.caveats :
                        /\ IoRes.m.caveats[k].type = "tp"
                        /\ IoRes.m.caveats[k].verifier_id = PacketValue("vid", j)
              /\ IoArg.kinds[j] = "cl" =>
                    \E k \in DOMAIN IoRes.m.caveats :
                        /\ IoRes.m.caveats[k].type = "tp"
                        /\ IoRes.m.caveats[k].location = PacketValue("cl", j)

=============================================================================
